---- MODULE Spec2Model ----
(***************************************************************************)
(* Model of the image generation pipeline of nano-banana-mcp:              *)
(*   GeminiClient.generateImages   (src/src/server/gemini-client.ts)       *)
(*   ImageTools.generateImage / validateImage  (server/tools.ts)           *)
(* A string is a sequence of tokens; "/" and "." are tokens of their own,  *)
(* so that the path functions and the substring tests of the code can be   *)
(* computed on it.                                                         *)
(***************************************************************************)
EXTENDS Integers, Sequences, FiniteSets, TLC

----------------------------------------------------------------------------
(* Strings *)

Sep == "/"
Dot == "."

SetMax(S) == CHOOSE x \in S : \A y \in S : y <= x

\* String.prototype.includes: pat occurs in s as a contiguous run
Includes(s, pat) ==
    \E k \in 1..(Len(s) - Len(pat) + 1) : SubSeq(s, k, k + Len(pat) - 1) = pat

\* String.prototype.startsWith
StartsWith(s, pat) == Len(s) >= Len(pat) /\ SubSeq(s, 1, Len(pat)) = pat

EndsWith(s, pat) ==
    Len(s) >= Len(pat) /\ SubSeq(s, Len(s) - Len(pat) + 1, Len(s)) = pat

----------------------------------------------------------------------------
(* node:path (posix), as used by getOutputPath and ensureDirectoryExists *)

\* position of the last token of s that is not a separator (0: none)
LastNonSep(s) == SetMax({0} \cup {j \in 1..Len(s) : s[j] # Sep})

\* path.basename(p): the last portion, trailing separators ignored
basename(p) ==
    LET e == LastNonSep(p)
        b == SetMax({0} \cup {j \in 1..e : p[j] = Sep})
    IN  IF e = 0 THEN <<>> ELSE SubSeq(p, b + 1, e)

\* path.extname(p): from the last "." of the basename; empty when there is
\* none, when it is the first character of the basename, or for ".."
extname(p) ==
    LET b == basename(p)
        d == SetMax({0} \cup {j \in 1..Len(b) : b[j] = Dot})
    IN  IF d <= 1 \/ b = <<Dot, Dot>> THEN <<>> ELSE SubSeq(b, d, Len(b))

\* path.basename(p, ext): the basename without the suffix ext
basenameExt(p, ext) ==
    LET b == basename(p)
    IN  IF Len(ext) > 0 /\ EndsWith(b, ext) /\ b # ext
        THEN SubSeq(b, 1, Len(b) - Len(ext))
        ELSE b

\* path.dirname(p)
dirname(p) ==
    LET n       == Len(p)
        hasRoot == n > 0 /\ p[1] = Sep
        lastNon == SetMax({0} \cup {j \in 2..n : p[j] # Sep})
        end     == SetMax({0} \cup {j \in 2..lastNon : p[j] = Sep})
    IN  IF n = 0 THEN <<Dot>>
        ELSE IF end = 0 THEN (IF hasRoot THEN <<Sep>> ELSE <<Dot>>)
        ELSE IF hasRoot /\ end = 2 THEN <<Sep, Sep>>
        ELSE SubSeq(p, 1, end - 1)

\* the segments of p between separators (empty ones included)
RECURSIVE Split(_)
Split(p) ==
    LET seps == {j \in 1..Len(p) : p[j] = Sep}
    IN  IF seps = {} THEN <<p>>
        ELSE LET j == SetMax(seps)
             IN  Append(Split(SubSeq(p, 1, j - 1)), SubSeq(p, j + 1, Len(p)))

\* normalizeString: "." and empty segments dropped, ".." resolved
RECURSIVE NormSegs(_, _)
NormSegs(segs, allowAboveRoot) ==
    IF segs = <<>> THEN <<>>
    ELSE LET res  == NormSegs(SubSeq(segs, 1, Len(segs) - 1), allowAboveRoot)
             last == segs[Len(segs)]
         IN  IF last = <<>> \/ last = <<Dot>> THEN res
             ELSE IF last = <<Dot, Dot>>
                  THEN IF Len(res) > 0 /\ res[Len(res)] # <<Dot, Dot>>
                       THEN SubSeq(res, 1, Len(res) - 1)
                       ELSE IF allowAboveRoot THEN Append(res, last) ELSE res
             ELSE Append(res, last)

RECURSIVE JoinSegs(_)
JoinSegs(segs) ==
    IF segs = <<>> THEN <<>>
    ELSE IF Len(segs) = 1 THEN segs[1]
    ELSE JoinSegs(SubSeq(segs, 1, Len(segs) - 1)) \o <<Sep>> \o segs[Len(segs)]

\* path.normalize(p)
normalize(p) ==
    LET isAbsolute == Len(p) > 0 /\ p[1] = Sep
        trailing   == Len(p) > 0 /\ p[Len(p)] = Sep
        body       == JoinSegs(NormSegs(Split(p), ~isAbsolute))
    IN  IF Len(p) = 0 THEN <<Dot>>
        ELSE IF Len(body) = 0
             THEN (IF isAbsolute THEN <<Sep>>
                   ELSE IF trailing THEN <<Dot, Sep>> ELSE <<Dot>>)
        ELSE (IF isAbsolute THEN <<Sep>> ELSE <<>>) \o body
             \o (IF trailing THEN <<Sep>> ELSE <<>>)

\* path.join(a, b): empty arguments skipped, the rest joined and normalized
join(a, b) ==
    IF Len(a) = 0 /\ Len(b) = 0 THEN <<Dot>>
    ELSE IF Len(a) = 0 THEN normalize(b)
    ELSE IF Len(b) = 0 THEN normalize(a)
    ELSE normalize(a \o <<Sep>> \o b)

----------------------------------------------------------------------------
(* Bytes, base64 and the image decoder *)

\* leading bytes of the image used by the model: the PNG signature followed
\* by one byte of width and one of height (what sharp reads back)
PngMagic == <<137, 80, 78, 71>>
Png(w, h) == PngMagic \o <<w, h>>
TextBytes == <<104, 105, 33, 10>>
\* a PNG cut off inside its header, and sixteen bytes of no format
TruncatedPng == PngMagic \o <<16>>
GarbageBytes == <<1, 2, 3, 4, 5, 6, 7, 8, 9, 10, 11, 12, 13, 14, 15, 16>>

\* base64 text is a sequence of tokens, each standing for a run of base64
\* characters; B64Bytes is what Buffer.from(token, 'base64') yields. A token
\* outside the table (padding, characters outside the alphabet) yields nothing.
B64Bytes(tok) ==
    CASE tok = "iVBORxAQ" -> Png(16, 16)
      [] tok = "iVBORwUF" -> Png(5, 5)
      [] tok = "iVBORw==" -> PngMagic
      [] tok = "aGkhCg==" -> TextBytes
      [] tok = "iVBORxA=" -> TruncatedPng
      [] tok = "AQIDBAUGBwgJCgsMDQ4PEA==" -> GarbageBytes
      [] tok = "base64," -> <<109, 171, 30>>
      [] OTHER -> <<>>

B64Tokens == {"iVBORxAQ", "iVBORwUF", "iVBORw==", "aGkhCg==", "iVBORxA=",
              "AQIDBAUGBwgJCgsMDQ4PEA=="}

\* Buffer.from(s, 'base64')
RECURSIVE Base64Decode(_)
Base64Decode(s) ==
    IF s = <<>> THEN <<>>
    ELSE Base64Decode(SubSeq(s, 1, Len(s) - 1)) \o B64Bytes(s[Len(s)])

\* buffer.toString('base64')
Base64Encode(bytes) ==
    IF \E t \in B64Tokens : B64Bytes(t) = bytes
    THEN <<CHOOSE t \in B64Tokens : B64Bytes(t) = bytes>>
    ELSE <<>>

\* sharp(path).metadata() on a file holding bytes: throws unless the bytes
\* decode; otherwise the pixel dimensions
SharpDecodes(bytes) == Len(bytes) >= 6 /\ SubSeq(bytes, 1, 4) = PngMagic
SharpMetadata(bytes) == [width |-> bytes[5], height |-> bytes[6]]

\* a validator without the test of the length
validateImageBufferAnyLength(buffer) ==
    \/ (Len(buffer) >= 4 /\ SubSeq(buffer, 1, 4) = <<137, 80, 78, 71>>)
    \/ (Len(buffer) >= 3 /\ SubSeq(buffer, 1, 3) = <<255, 216, 255>>)
    \/ (Len(buffer) >= 4 /\ SubSeq(buffer, 1, 4) = <<71, 73, 70, 56>>)
    \/ (Len(buffer) >= 12 /\ SubSeq(buffer, 1, 4) = <<82, 73, 70, 70>>
        /\ SubSeq(buffer, 9, 12) = <<87, 69, 66, 80>>)
    \/ (Len(buffer) >= 2 /\ SubSeq(buffer, 1, 2) = <<66, 77>>)

\* GeminiClient.validateImageBuffer
validateImageBuffer(buffer) ==
    IF Len(buffer) < 4 THEN FALSE
    ELSE LET m == SubSeq(buffer, 1, 4)
         IN  \/ (m[1] = 137 /\ m[2] = 80 /\ m[3] = 78 /\ m[4] = 71)
             \/ (m[1] = 255 /\ m[2] = 216 /\ m[3] = 255)
             \/ (m[1] = 71 /\ m[2] = 73 /\ m[3] = 70 /\ m[4] = 56)
             \/ (/\ m[1] = 82 /\ m[2] = 73 /\ m[3] = 70 /\ m[4] = 70
                 /\ Len(buffer) >= 12
                 /\ SubSeq(buffer, 9, 12) = <<87, 69, 66, 80>>)
             \/ (m[1] = 66 /\ m[2] = 77)

----------------------------------------------------------------------------
(* Error messages and their classification *)

\* the message of the Error a failed fs call rejects with: code, text, the
\* system call and the quoted path
OsMessage(code, syscall, p) ==
    LET text == CASE code = "ENOENT" -> <<"ENOENT: no such file or directory, ">>
                  [] code = "EACCES" -> <<"EACCES: ", "permission", " denied, ">>
                  [] code = "EEXIST" -> <<"EEXIST: file already ", "exists", ", ">>
                  [] code = "ENOTDIR" -> <<"ENOTDIR: not a directory, ">>
                  [] OTHER -> <<code>>
    IN  text \o syscall \o <<" '">> \o p \o <<"'">>

AccessCall == <<"access">>
OpenCall   == <<"open">>
MkdirCall  == <<"mkdir">>

\* messages of the remote service's failures
ApiKeyMessage  == <<"API key", " not valid. Please pass a valid ", "API key", ".">>
QuotaMessage   == <<"You exceeded your current ", "quota", ".">>
NetworkMessage == <<"fetch failed">>
SharpMessage   == <<"Input file contains unsupported image format">>

NoContentMessage == <<"Either prompt or images must be provided">>

Failure(code, message) ==
    [success |-> FALSE, code |-> code, message |-> message, images |-> <<>>,
     hasImages |-> FALSE]

Success(images) ==
    [success |-> TRUE, code |-> "OK", message |-> <<>>, images |-> images,
     hasImages |-> TRUE]

\* a classification that tests the generic patterns first
handleErrorGenericFirst(message) ==
    IF Includes(message, <<"permission">>) \/ Includes(message, <<"access">>)
    THEN Failure("FILE_WRITE_ERROR", <<"Unable to write file to specified path">>)
    ELSE IF Includes(message, <<"Empty base64">>)
    THEN Failure("EMPTY_IMAGE_DATA", message)
    ELSE IF Includes(message, <<"Invalid base64">>)
    THEN Failure("INVALID_BASE64", message)
    ELSE IF Includes(message, <<"not a ", "valid image">>)
    THEN Failure("INVALID_IMAGE_FORMAT", message)
    ELSE IF Includes(message, <<"file not found">>)
    THEN Failure("FILE_NOT_FOUND", message)
    ELSE IF Includes(message, <<"Permission denied">>)
    THEN Failure("FILE_ACCESS_ERROR", message)
    ELSE IF Includes(message, <<"quota">>) \/ Includes(message, <<"limit">>)
    THEN Failure("QUOTA_EXCEEDED", <<"API ", "quota", " exceeded or rate ", "limit", " reached">>)
    ELSE IF Includes(message, <<"exists">>)
    THEN Failure("FILE_EXISTS", message)
    ELSE IF Includes(message, <<"API key">>)
    THEN Failure("INVALID_API_KEY", <<"Invalid or missing ", "API key">>)
    ELSE Failure("API_ERROR", message)

\* GeminiClient.handleError; an error without a message is reported as
\* 'Unknown error occurred'
handleError(message) ==
    IF Includes(message, <<"API key">>)
    THEN Failure("INVALID_API_KEY", <<"Invalid or missing ", "API key">>)
    ELSE IF Includes(message, <<"exists">>)
    THEN Failure("FILE_EXISTS", message)
    ELSE IF Includes(message, <<"quota">>) \/ Includes(message, <<"limit">>)
    THEN Failure("QUOTA_EXCEEDED", <<"API ", "quota", " exceeded or rate ", "limit", " reached">>)
    ELSE IF Includes(message, <<"Permission denied">>)
    THEN Failure("FILE_ACCESS_ERROR", message)
    ELSE IF Includes(message, <<"file not found">>)
    THEN Failure("FILE_NOT_FOUND", message)
    ELSE IF Includes(message, <<"not a ", "valid image">>)
    THEN Failure("INVALID_IMAGE_FORMAT", message)
    ELSE IF Includes(message, <<"Invalid base64">>)
    THEN Failure("INVALID_BASE64", message)
    ELSE IF Includes(message, <<"Empty base64">>)
    THEN Failure("EMPTY_IMAGE_DATA", message)
    ELSE IF Includes(message, <<"permission">>) \/ Includes(message, <<"access">>)
    THEN Failure("FILE_WRITE_ERROR", <<"Unable to write file to specified path">>)
    ELSE Failure("API_ERROR",
                 IF message = <<>> THEN <<"Unknown error occurred">> ELSE message)

----------------------------------------------------------------------------
(* The input resolver and the content assembler *)

\* what an input path holds when it is resolved: fs.access fails with
\* ENOENT ("missing"), EACCES ("noaccess") or another error ("notdir"),
\* fs.readFile fails ("unreadable"), or the file is read and holds bytes
FileState(st, bytes) == [st |-> st, bytes |-> bytes]

Thrown(message) == [ok |-> FALSE, message |-> message]

ToLower(tok) ==
    CASE tok = "PNG" -> "png"
      [] tok = "JPG" -> "jpg"
      [] OTHER -> tok

\* the mime type loadImageData derives from the extension of a file path
MimeOfExt(ext, fallback) ==
    LET e == [j \in 1..Len(ext) |-> ToLower(ext[j])]
    IN  IF e = <<Dot, "jpg">> \/ e = <<Dot, "jpeg">> THEN "image/jpeg"
        ELSE IF e = <<Dot, "png">> THEN "image/png"
        ELSE IF e = <<Dot, "gif">> THEN "image/gif"
        ELSE IF e = <<Dot, "webp">> THEN "image/webp"
        ELSE fallback

\* data.match(/^data:([^;]+);base64,(.+)$/): the position of the ";" that
\* ends the mime type, 0 when the pattern does not match
DataUrlMatch(data) ==
    LET semis == {j \in 1..Len(data) : data[j] = ";"}
        j     == IF semis = {} THEN 0 ELSE CHOOSE x \in semis : \A y \in semis : x <= y
    IN  IF /\ Len(data) >= 1 /\ data[1] = "data:"
           /\ j > 2
           /\ Len(data) >= j + 2
           /\ data[j + 1] = "base64,"
        THEN j ELSE 0

\* the try block of the two inline branches of loadImageData, with its
\* catch: an error whose message includes 'valid image' is rethrown, any
\* other is wrapped as 'Invalid base64 image data: ...'
InlineCheck(payload) ==
    LET buffer == Base64Decode(payload)
        raised == IF Len(buffer) = 0
                  THEN <<"Empty base64", " image data">>
                  ELSE IF ~validateImageBuffer(buffer)
                  THEN <<"Base64 data is ", "not a ", "valid image", " format">>
                  ELSE <<>>
    IN  IF raised = <<>> THEN <<>>
        ELSE IF Includes(raised, <<"valid image">>) THEN raised
        ELSE <<"Invalid base64", " image data: ">> \o raised

\* GeminiClient.loadImageData; file is the state of the file at image.data
loadImageData(image, file) ==
    LET data == image.data
        mime == IF image.mimeType = "" THEN "image/png" ELSE image.mimeType
    IN  IF ~StartsWith(data, <<"data:">>) /\ ~Includes(data, <<"base64,">>)
        THEN IF file.st = "missing"
             THEN Thrown(<<"Image ", "file not found", ": ">> \o data)
             ELSE IF file.st = "noaccess"
             THEN Thrown(<<"Permission denied", " ", "access", "ing image file: ">> \o data)
             ELSE IF file.st = "notdir"
             THEN Thrown(<<"Cannot ", "access", " image file: ">> \o data \o <<" - ">>
                         \o OsMessage("ENOTDIR", AccessCall, data))
             ELSE IF file.st = "unreadable"
             THEN Thrown(<<"Failed to read image file: ">> \o data \o <<" - ">>
                         \o OsMessage("EACCES", OpenCall, data))
             ELSE IF ~validateImageBuffer(file.bytes)
             THEN Thrown(<<"File is ", "not a ", "valid image", " format: ">> \o data)
             ELSE [ok |-> TRUE, data |-> Base64Encode(file.bytes),
                   mimeType |-> MimeOfExt(extname(data), mime)]
        ELSE IF StartsWith(data, <<"data:">>)
        THEN LET j == DataUrlMatch(data)
             IN  IF j = 0
                 THEN Thrown(<<"Invalid data URL format. Expected: data:[mimeType];base64,[data]">>)
                 ELSE LET payload == SubSeq(data, j + 2, Len(data))
                          raised  == InlineCheck(payload)
                      IN  IF raised # <<>> THEN Thrown(raised)
                          ELSE [ok |-> TRUE, data |-> payload,
                                mimeType |-> data[2]]
        ELSE LET raised == InlineCheck(data)
             IN  IF raised # <<>> THEN Thrown(raised)
                 ELSE [ok |-> TRUE, data |-> data, mimeType |-> mime]

\* the one input file the model follows; any other path names no file
InPath == <<"in", Dot, "png">>
InputFileAt(inFile, p) == IF p = InPath THEN inFile ELSE FileState("missing", <<>>)

\* no image of the request names the input file
NoFile == FileState("none", <<>>)

\* the state the input file of the request is in during an assembly
Observed(options, inFile) ==
    IF \E n \in 1..Len(options.images) : options.images[n].data = InPath
    THEN inFile ELSE NoFile

\* an assembly that leaves out the images that fail to resolve
RECURSIVE LoadAllSkipping(_, _, _)
LoadAllSkipping(images, n, inFile) ==
    IF n = 0 THEN [ok |-> TRUE, parts |-> <<>>]
    ELSE LET before == LoadAllSkipping(images, n - 1, inFile)
             one    == loadImageData(images[n], InputFileAt(inFile, images[n].data))
         IN  IF ~one.ok THEN before
             ELSE [ok |-> TRUE,
                   parts |-> Append(before.parts,
                       [kind |-> "inlineData", mimeType |-> one.mimeType,
                        data |-> one.data])]

\* an assembly that puts each image before those pushed so far
RECURSIVE LoadAllReversed(_, _, _)
LoadAllReversed(images, n, inFile) ==
    IF n = 0 THEN [ok |-> TRUE, parts |-> <<>>]
    ELSE LET before == LoadAllReversed(images, n - 1, inFile)
         IN  IF ~before.ok THEN before
             ELSE LET one == loadImageData(images[n], InputFileAt(inFile, images[n].data))
                  IN  IF ~one.ok THEN one
                      ELSE [ok |-> TRUE,
                            parts |-> <<[kind |-> "inlineData", mimeType |-> one.mimeType,
                                         data |-> one.data]>> \o before.parts]

\* the parts prepareContents pushes for images[1..n], or the first error
RECURSIVE LoadAll(_, _, _)
LoadAll(images, n, inFile) ==
    IF n = 0 THEN [ok |-> TRUE, parts |-> <<>>]
    ELSE LET before == LoadAll(images, n - 1, inFile)
         IN  IF ~before.ok THEN before
             ELSE LET one == loadImageData(images[n], InputFileAt(inFile, images[n].data))
                  IN  IF ~one.ok THEN one
                      ELSE [ok |-> TRUE,
                            parts |-> Append(before.parts,
                                [kind |-> "inlineData", mimeType |-> one.mimeType,
                                 data |-> one.data])]

\* GeminiClient.prepareContents
prepareContents(options, inFile) ==
    LET text   == IF options.prompt # <<>>
                  THEN <<[kind |-> "text", mimeType |-> "", data |-> options.prompt]>>
                  ELSE <<>>
        loaded == LoadAll(options.images, Len(options.images), inFile)
    IN  IF ~loaded.ok THEN loaded
        ELSE IF Len(text \o loaded.parts) = 0 THEN Thrown(NoContentMessage)
        ELSE [ok |-> TRUE, parts |-> text \o loaded.parts]

----------------------------------------------------------------------------
(* The output path planner *)

\* the decimal digits of a number, one token
NumStr(n) == ToString(n)

\* a numbering that starts at 0
getOutputPathZeroBased(basePath, index, total) ==
    IF total = 1 THEN basePath
    ELSE LET dir  == dirname(basePath)
             ext  == extname(basePath)
             name == basenameExt(basePath, ext)
         IN  join(dir, name \o <<"-", NumStr(index)>> \o ext)

\* GeminiClient.getOutputPath
getOutputPath(basePath, index, total) ==
    IF total = 1 THEN basePath
    ELSE LET dir  == dirname(basePath)
             ext  == extname(basePath)
             name == basenameExt(basePath, ext)
         IN  join(dir, name \o <<"-", NumStr(index + 1)>> \o ext)

\* x || 1 on a count: an absent count (hasCount false) and 0 are falsy
CountOrOne(options) ==
    IF ~options.hasCount \/ options.count = 0 THEN 1 ELSE options.count

OrOne(n) == IF n = 0 THEN 1 ELSE n

\* lines 50-55 of generateImages: the paths pushed to intendedPaths
IntendedPaths(options) ==
    LET total == CountOrOne(options)
        n     == IF total < 1 THEN 1 ELSE total
    IN  [j \in 1..n |-> getOutputPath(options.outputPath, j - 1, OrOne(total))]

\* the file a path names: two paths with the same key are the same file
FileKey(p) == normalize(p)

----------------------------------------------------------------------------
(* Requests, responses and the bounds of the model *)

MaxUnits == 3      \* the largest valid count a request of the model carries
MaxExt   == 1      \* files other processes create, before or during a request
MinCount == 1      \* tools.ts: count: z.number().min(1)
MaxCount == 10     \* tools.ts: count: z.number().max(10)

Reqs == {1, 2}

Image(data) == [data |-> data, mimeType |-> ""]
DataUrlPng  == <<"data:", "image/png", ";", "base64,", "iVBORxAQ">>
BareBase64  == <<"iVBORxAQ">>

Prompts    == {<<>>, <<"a cat">>}
ImageLists == {<<>>, <<Image(InPath)>>}
OutPaths   == {<<Dot, Sep, "art", Sep, "out", Dot, "png">>}
Counts     == {-1, 0, MaxCount + 1} \cup (MinCount..MaxUnits)

\* a call of generate_image (entry "tool") or of GeminiClient.generateImages
\* (entry "client"); an absent count has hasCount false
\* (makeTransparent is an input of the tool only)
Entries == {<<"tool", TRUE>>, <<"tool", FALSE>>, <<"client", FALSE>>}

Requests ==
    {[entry |-> e[1], makeTransparent |-> e[2], prompt |-> p, images |-> im,
      outputPath |-> o, hasCount |-> TRUE, count |-> c] :
        e \in Entries, p \in Prompts, im \in ImageLists,
        o \in OutPaths, c \in Counts}
    \cup
    {[entry |-> e[1], makeTransparent |-> e[2], prompt |-> p, images |-> im,
      outputPath |-> o, hasCount |-> FALSE, count |-> 0] :
        e \in Entries, p \in Prompts, im \in ImageLists, o \in OutPaths}

\* the states another process can leave the input file in
InFiles ==
    {FileState("missing", <<>>), FileState("noaccess", <<>>),
     FileState("notdir", <<>>), FileState("unreadable", <<>>),
     FileState("file", Png(16, 16)), FileState("file", TextBytes),
     FileState("file", <<>>)}

TextPart == [kind |-> "text", data |-> <<"Here is your image">>]
InlinePart(data) == [kind |-> "inlineData", data |-> data]

\* what ai.models.generateContent can answer: a rejection, a response
\* without candidates, or a first candidate with these parts
PartLists ==
    {<<>>, <<TextPart>>, <<InlinePart(<<>>)>>,
     <<InlinePart(<<"iVBORxAQ">>)>>, <<InlinePart(<<"aGkhCg==">>)>>,
     <<TextPart, InlinePart(<<"iVBORxAQ">>)>>,
     <<InlinePart(<<"iVBORxAQ">>), InlinePart(<<"iVBORxAQ">>)>>}

Responses ==
    {[kind |-> "throw", message |-> m, parts |-> <<>>] :
        m \in {ApiKeyMessage, QuotaMessage, NetworkMessage}}
    \cup {[kind |-> "empty", message |-> <<>>, parts |-> <<>>]}
    \cup {[kind |-> "candidate", message |-> <<>>, parts |-> ps] : ps \in PartLists}

\* bytes a file created by another process holds
ForeignBytes == Png(9, 9)

----------------------------------------------------------------------------
(* State *)

VARIABLES
    rq,      \* rq[r]: the locals of request r and what it has done so far
    files,   \* the output directory: file key -> [by, unit, bytes, data]:
             \* who created the file, in which unit, its content, and the
             \* base64 payload it was written from
    ext,     \* files other processes may still create
    report   \* the result of the last validate_image call

vars == <<rq, files, ext, report>>

NoResult == [success |-> FALSE, code |-> "", message |-> <<>>, images |-> <<>>,
             hasImages |-> FALSE]

NoOptions == [entry |-> "", makeTransparent |-> FALSE, prompt |-> <<>>, images |-> <<>>, outputPath |-> <<>>,
              hasCount |-> FALSE, count |-> 0]

\* a request not yet made. pc is the await the request is suspended at.
\* What happened is recorded in calls (remote calls issued), wrote (files
\* created), startFiles (files present when generateImages started), foreign
\* (another process created a file meanwhile), log (how each unit ended:
\* "image", "empty", or the step that threw), thrown (the last exception),
\* inFile (the input file as the assembly of the unit under way, or of
\* the unit that ended the request, found it) and settled (remote calls
\* that have completed or failed)
NewRequest(options) ==
    [pc |-> IF options = NoOptions THEN "off" ELSE "init",
     options |-> options,
     intendedPaths |-> <<>>, k |-> 0,
     count |-> 0, i |-> 0,
     parts |-> <<>>, outputPath |-> <<>>, buffer |-> <<>>,
     generatedImages |-> <<>>,
     result |-> NoResult, t |-> 0,
     calls |-> 0, wrote |-> {}, startFiles |-> {}, foreign |-> FALSE,
     log |-> <<>>, thrown |-> <<>>, inFile |-> NoFile, settled |-> 0]

Exists(p) == FileKey(p) \in DOMAIN files

Created(fs, p, content) ==
    [x \in DOMAIN fs \cup {FileKey(p)} |-> IF x = FileKey(p) THEN content ELSE fs[x]]

PlannedKeys(options) ==
    LET ps == IntendedPaths(options) IN {FileKey(ps[j]) : j \in 1..Len(ps)}

ForeignFile == [by |-> 0, unit |-> 0, bytes |-> ForeignBytes, data |-> <<>>]

\* a rewrite that leaves the file cut off after its signature
WithAlphaCutOff(bytes) == SubSeq(bytes, 1, 4)

\* makeTransparent rewrites the file as a PNG of the same size with an
\* alpha channel
WithAlpha(bytes) == SubSeq(bytes, 1, 6) \o <<1>>

MinSize == 10

\* no validate_image call yet. Next to the result, a report records the
\* call it answers: the path, whether the input was well typed, whether
\* fs.stat rejected
NoReport == [path |-> <<>>, exists |-> FALSE, valid |-> FALSE, hasDimensions |-> FALSE,
             width |-> 0, height |-> 0, error |-> "none",
             wellTyped |-> TRUE, statFails |-> FALSE]

\* a validation without the minimum size
validateImageNoMinimum(wellTyped, x, fs, statFails) ==
    LET base == [NoReport EXCEPT !.path = x, !.wellTyped = wellTyped,
                                 !.statFails = statFails] IN
    IF ~wellTyped THEN [base EXCEPT !.error = "Invalid input parameters"]
    ELSE IF x \notin DOMAIN fs THEN [base EXCEPT !.error = "File does not exist"]
    ELSE IF ~SharpDecodes(fs[x].bytes) \/ statFails
    THEN [base EXCEPT !.exists = TRUE, !.error = "Invalid image file"]
    ELSE LET m == SharpMetadata(fs[x].bytes) IN
         IF m.width = 0 \/ m.height = 0
         THEN [base EXCEPT !.exists = TRUE, !.error = "Image has invalid dimensions"]
         ELSE [base EXCEPT !.exists = TRUE, !.valid = TRUE, !.hasDimensions = TRUE,
                           !.width = m.width, !.height = m.height, !.error = "none"]

\* ImageTools.validateImage on the path x of the directory fs; wellTyped:
\* the input passes ValidateImageSchema; statFails: fs.stat rejects
validateImage(wellTyped, x, fs, statFails) ==
    LET base == [NoReport EXCEPT !.path = x, !.wellTyped = wellTyped,
                                 !.statFails = statFails] IN
    IF ~wellTyped THEN [base EXCEPT !.error = "Invalid input parameters"]
    ELSE IF x \notin DOMAIN fs THEN [base EXCEPT !.error = "File does not exist"]
    ELSE IF ~SharpDecodes(fs[x].bytes) \/ statFails
    THEN [base EXCEPT !.exists = TRUE, !.error = "Invalid image file"]
    ELSE LET m == SharpMetadata(fs[x].bytes) IN
         IF m.width = 0 \/ m.height = 0
         THEN [base EXCEPT !.exists = TRUE, !.error = "Image has invalid dimensions"]
         ELSE IF m.width < MinSize \/ m.height < MinSize
         THEN [base EXCEPT !.exists = TRUE, !.hasDimensions = TRUE,
                           !.width = m.width, !.height = m.height,
                           !.error = "Image is too small (less than 10x10 pixels)"]
         ELSE [base EXCEPT !.exists = TRUE, !.valid = TRUE, !.hasDimensions = TRUE,
                           !.width = m.width, !.height = m.height, !.error = "none"]

----------------------------------------------------------------------------
(* Control flow of generateImages: returns, the loop, the two catch blocks *)

ExistsMessage(p) == <<"Output file already ", "exists", ": ">> \o p

\* the result of generateImages reaches the caller; generate_image with
\* makeTransparent first post-processes the images of a success
Returned(q, result) ==
    IF q.options.entry = "tool" /\ q.options.makeTransparent /\ result.success
    THEN [q EXCEPT !.pc = "transparent", !.result = result, !.t = 1]
    ELSE [q EXCEPT !.pc = "done", !.result = result]

\* ImageTools.generateImage, catch block: an error that is no ZodError
ToolCatch(message) == Failure("UNKNOWN_ERROR", message)

\* an exception leaving generateImages: the tool's catch turns it into a
\* result, a direct caller receives the rejection
Escaped(q, message) ==
    IF q.options.entry = "tool" THEN Returned(q, ToolCatch(message))
    ELSE [q EXCEPT !.pc = "escaped"]

\* an outer catch that lets the exception pass
OuterCatchRethrows(message) == [caught |-> FALSE, result |-> NoResult]

\* generateImages, lines 156-158: the outer catch
OuterCatch(message) == [caught |-> TRUE, result |-> handleError(message)]

\* a catch that logs for every unit, and one that rethrows for every unit
InnerCatchNever(i) == FALSE

InnerCatchAlways(i) == TRUE

\* generateImages, lines 133-138: the catch of the unit loop rethrows for
\* the first unit and logs for the others
InnerCatchRethrows(i) == i = 0

\* a loop end that reports success only when every unit gave an image
FinishedAllOrNothing(q) ==
    IF Len(q.generatedImages) < q.count
    THEN Returned(q, Failure("NO_IMAGES_GENERATED", <<"No images were generated">>))
    ELSE Returned(q, Success(q.generatedImages))

\* a loop end that reports success whatever the accumulator holds
FinishedAlwaysSuccess(q) == Returned(q, Success(q.generatedImages))

\* generateImages, lines 141-154: after the loop
Finished(q) ==
    IF Len(q.generatedImages) = 0
    THEN Returned(q, Failure("NO_IMAGES_GENERATED", <<"No images were generated">>))
    ELSE Returned(q, Success(q.generatedImages))

\* a loop that leaves out the unit after the one that ended
NextUnitSkips(q, outcome) ==
    LET q1 == [q EXCEPT !.log = Append(@, outcome), !.i = @ + 2,
                        !.parts = <<>>, !.outputPath = <<>>, !.buffer = <<>>,
                        !.inFile = NoFile]
    IN  IF q1.i < q1.count THEN [q1 EXCEPT !.pc = "assemble"] ELSE Finished(q1)

\* a loop that runs a unit again when it gave no image
NextUnitAgain(q, outcome) ==
    LET q1 == [q EXCEPT !.log = Append(@, outcome),
                        !.i = IF outcome = "image" THEN @ + 1 ELSE @,
                        !.parts = <<>>, !.outputPath = <<>>, !.buffer = <<>>,
                        !.inFile = NoFile]
    IN  IF q1.i < q1.count THEN [q1 EXCEPT !.pc = "assemble"] ELSE Finished(q1)

\* the end of unit i with the given outcome: the next unit or the end
NextUnit(q, outcome) ==
    LET q1 == [q EXCEPT !.log = Append(@, outcome), !.i = @ + 1,
                        !.parts = <<>>, !.outputPath = <<>>, !.buffer = <<>>,
                        !.inFile = NoFile]
    IN  IF q1.i < q1.count THEN [q1 EXCEPT !.pc = "assemble"] ELSE Finished(q1)

\* how the log records an exception of unit i: for the first unit the step
\* that threw; for a later unit whether prepareContents or the remote call
\* threw ("threw"), the exclusive write ("eexist"), or another file-system
\* or decoder call ("fsfail")
LogEntry(i, cause) ==
    IF i = 0 THEN cause
    ELSE IF cause \in {"assemble", "remote"} THEN "threw"
    ELSE IF cause = "eexist" THEN "eexist"
    ELSE "fsfail"

\* an exception thrown inside the try block of unit i
Raised(q, message, cause) ==
    IF InnerCatchRethrows(q.i)
    THEN LET q1 == [q EXCEPT !.log = Append(@, LogEntry(q.i, cause)),
                             !.thrown = message]
             c  == OuterCatch(message)
         IN  IF c.caught THEN Returned(q1, c.result) ELSE Escaped(q1, message)
    ELSE NextUnit(q, LogEntry(q.i, cause))

\* part.inlineData && part.inlineData.data
IsImagePart(part) == part.kind = "inlineData" /\ part.data # <<>>

\* generateImages, lines 101-106: the loop over the parts runs to the next
\* part with inline data and suspends in ensureDirectoryExists; unit i ends
\* when no part is left
ProcessParts(q, parts, outcome) ==
    LET idx == {j \in 1..Len(parts) : IsImagePart(parts[j])}
    IN  IF idx = {} THEN NextUnit(q, outcome)
        ELSE LET j == CHOOSE x \in idx : \A y \in idx : x <= y
             IN  [q EXCEPT !.pc = "mkdir",
                           !.parts = SubSeq(parts, j, Len(parts)),
                           !.outputPath = getOutputPath(q.options.outputPath, q.i, q.count)]

\* GenerateImageSchema.parse: the count, when given, is within 1..10
SchemaAccepts(options) ==
    ~options.hasCount \/ (options.count >= MinCount /\ options.count <= MaxCount)

\* generateImages, lines 73: the count check
CountRejected(count) == count < 1 \/ count > 10

\* generateImages up to its first await: the plan is computed
Entered(q) ==
    [q EXCEPT !.pc = "precheck",
              !.intendedPaths = IntendedPaths(q.options),
              !.k = 1,
              !.startFiles = DOMAIN files]

\* a write with the default flag 'w'
WriteTruncates == FALSE

\* fs.writeFile(outputPath, buffer, { flag: 'wx' }): exclusive create
WriteExclusive == TRUE

\* a pre-check of the first planned path only
PreCheckFirstOnly(q) == TRUE

\* generateImages, lines 57-70: the pre-check has tried every planned path
PreCheckDone(q) == q.k >= Len(q.intendedPaths)

----------------------------------------------------------------------------
(* Actions *)

Running(q) == q.pc \notin {"off", "init", "done", "escaped"}

\* one request out of R is about to be made; the output directory is empty
InitWith(R, budget) ==
    /\ \E o \in R :
         rq = [r \in Reqs |-> IF r = 1 THEN NewRequest(o) ELSE NewRequest(NoOptions)]
    /\ files = <<>>
    /\ ext = budget
    /\ report = NoReport

Init == InitWith(Requests, MaxExt)

\* ImageTools.generateImage: validation, then generateImages
ToolGenerateImage(r) ==
    LET q == rq[r] IN
    /\ q.pc = "init" /\ q.options.entry = "tool"
    /\ rq' = [rq EXCEPT ![r] =
         IF ~SchemaAccepts(q.options)
         THEN Returned(q, Failure("INVALID_INPUT", <<"Invalid input parameters">>))
         ELSE IF q.options.prompt = <<>> /\ Len(q.options.images) = 0
         THEN Returned(q, Failure("INVALID_INPUT", NoContentMessage))
         ELSE Entered(q)]
    /\ UNCHANGED <<files, ext, report>>

\* GeminiClient.generateImages called directly
ClientGenerateImages(r) ==
    LET q == rq[r] IN
    /\ q.pc = "init" /\ q.options.entry = "client"
    /\ rq' = [rq EXCEPT ![r] = Entered(q)]
    /\ UNCHANGED <<files, ext, report>>

\* lines 57-81: one fs.access of the pre-check; after the last one, the
\* count check and the start of the loop
PreCheck(r) ==
    LET q == rq[r]
        p == q.intendedPaths[q.k]
        count == CountOrOne(q.options)
    IN
    /\ q.pc = "precheck"
    /\ rq' = [rq EXCEPT ![r] =
         IF Exists(p) THEN Returned(q, Failure("FILE_EXISTS", ExistsMessage(p)))
         ELSE IF ~PreCheckDone(q) THEN [q EXCEPT !.k = @ + 1]
         ELSE IF CountRejected(count)
         THEN Returned(q, Failure("INVALID_INPUT", <<"Count must be between 1 and 10">>))
         ELSE [q EXCEPT !.pc = "assemble", !.count = count, !.i = 0]]
    /\ UNCHANGED <<files, ext, report>>

\* lines 89-94: prepareContents, with the input file in one of the states
\* Fs, then the remote call is issued; while it is in flight, parts holds
\* the contents sent
AssembleWith(r, Fs) ==
    LET q == rq[r] IN
    /\ q.pc = "assemble"
    /\ \E inFile \in Fs :
         LET c  == prepareContents(q.options, inFile)
             q1 == [q EXCEPT !.inFile = Observed(q.options, inFile)]
         IN  rq' = [rq EXCEPT ![r] =
                IF c.ok THEN [q1 EXCEPT !.pc = "calling", !.calls = @ + 1,
                                        !.parts = c.parts]
                ELSE Raised(q1, c.message, "assemble")]
    /\ UNCHANGED <<files, ext, report>>

Assemble(r) == AssembleWith(r, InFiles)

\* lines 91-106: the remote call settles with one of the responses Rs
RespondWith(r, Rs) ==
    LET q == [rq[r] EXCEPT !.settled = @ + 1] IN
    /\ q.pc = "calling"
    /\ \E resp \in Rs :
         rq' = [rq EXCEPT ![r] =
            IF resp.kind = "throw" THEN Raised(q, resp.message, "remote")
            ELSE IF resp.kind = "empty" THEN NextUnit(q, "empty")
            ELSE ProcessParts(q, resp.parts, "empty")]
    /\ UNCHANGED <<files, ext, report>>

Respond(r) == RespondWith(r, Responses)

\* lines 106-108: ensureDirectoryExists settles; the buffer is decoded
Mkdir(r) ==
    LET q == rq[r] IN
    /\ q.pc = "mkdir"
    /\ \/ rq' = [rq EXCEPT ![r] =
             [q EXCEPT !.pc = "recheck", !.buffer = Base64Decode(q.parts[1].data)]]
       \/ rq' = [rq EXCEPT ![r] =
             Raised(q, OsMessage("EACCES", MkdirCall, dirname(q.outputPath)), "mkdir")]
    /\ UNCHANGED <<files, ext, report>>

\* lines 110-119: the fs.access before the write
Recheck(r) ==
    LET q == rq[r] IN
    /\ q.pc = "recheck"
    /\ rq' = [rq EXCEPT ![r] =
         IF Exists(q.outputPath)
         THEN Returned([q EXCEPT !.log = Append(@, "recheck")],
                       Failure("FILE_EXISTS", ExistsMessage(q.outputPath)))
         ELSE [q EXCEPT !.pc = "write"]]
    /\ UNCHANGED <<files, ext, report>>

\* line 120: fs.writeFile settles: EEXIST when the file exists, else the
\* file is created, unless the open fails for another reason
Write(r) ==
    LET q == rq[r] IN
    /\ q.pc = "write"
    /\ IF Exists(q.outputPath) /\ WriteExclusive
       THEN /\ rq' = [rq EXCEPT ![r] =
                 Raised(q, OsMessage("EEXIST", OpenCall, q.outputPath), "eexist")]
            /\ UNCHANGED files
       ELSE \/ /\ files' = Created(files, q.outputPath,
                                   [by |-> r, unit |-> q.i, bytes |-> q.buffer,
                                    data |-> q.parts[1].data])
               /\ rq' = [rq EXCEPT ![r] =
                    [q EXCEPT !.pc = "metadata",
                              !.wrote = @ \cup {FileKey(q.outputPath)}]]
            \/ /\ rq' = [rq EXCEPT ![r] =
                    Raised(q, OsMessage("EACCES", OpenCall, q.outputPath), "write")]
               /\ UNCHANGED files
    /\ UNCHANGED <<ext, report>>

\* lines 122-131: sharp reads the file back; the image is recorded
Metadata(r) ==
    LET q == rq[r]
        bytes == files[FileKey(q.outputPath)].bytes
    IN
    /\ q.pc = "metadata"
    /\ rq' = [rq EXCEPT ![r] =
         IF SharpDecodes(bytes)
         THEN ProcessParts(
                [q EXCEPT !.generatedImages =
                    Append(@, [path |-> q.outputPath, size |-> SharpMetadata(bytes)])],
                Tail(q.parts), "image")
         ELSE Raised(q, SharpMessage, "metadata")]
    /\ UNCHANGED <<files, ext, report>>

\* another process creates one of the files a request plans to write,
\* before the request is made or while it runs
ExternalCreate ==
    /\ ext > 0
    /\ \E r \in Reqs :
         /\ rq[r].pc = "init" \/ Running(rq[r])
         /\ \E x \in PlannedKeys(rq[r].options) \ DOMAIN files :
              files' = [y \in DOMAIN files \cup {x} |->
                            IF y = x THEN ForeignFile ELSE files[y]]
    /\ rq' = [r \in Reqs |-> IF Running(rq[r]) THEN [rq[r] EXCEPT !.foreign = TRUE]
                             ELSE rq[r]]
    /\ ext' = ext - 1
    /\ UNCHANGED report

\* ImageTools.generateImage, lines 231-246: makeTransparent on the next
\* image of a success overwrites the generated file or fails; a failure is
\* logged and the result is returned as it is
Transparency(r) ==
    LET q == rq[r]
        x == FileKey(q.result.images[q.t].path)
        q1 == IF q.t < Len(q.result.images) THEN [q EXCEPT !.t = @ + 1]
              ELSE [q EXCEPT !.pc = "done"]
    IN
    /\ q.pc = "transparent"
    /\ rq' = [rq EXCEPT ![r] = q1]
    /\ \/ files' = [files EXCEPT ![x].bytes = WithAlpha(@)]
       \/ UNCHANGED files
    /\ UNCHANGED <<ext, report>>

\* ImageTools.validateImage. It only reads, and every content of the
\* output directory the model reaches is also reached with no request
\* under way, so it is taken once the requests have returned
ValidateImage ==
    /\ \A r \in Reqs : rq[r].pc \in {"off", "done", "escaped"}
    /\ \E o \in {rq[r].options : r \in Reqs} \ {NoOptions} :
       \E x \in {FileKey(o.outputPath)} \cup DOMAIN files :
       \E wellTyped \in BOOLEAN, statFails \in BOOLEAN :
         report' = validateImage(wellTyped, x, files, statFails)
    /\ UNCHANGED <<rq, files, ext>>

\* the steps of request r
Generate(r) ==
    \/ ClientGenerateImages(r)
    \/ PreCheck(r)
    \/ Assemble(r)
    \/ Respond(r)
    \/ Mkdir(r)
    \/ Recheck(r)
    \/ Write(r)
    \/ Metadata(r)

Next ==
    \/ \E r \in Reqs : Generate(r)
    \/ \E r \in Reqs : ToolGenerateImage(r)
    \/ \E r \in Reqs : Transparency(r)
    \/ ExternalCreate

Spec == Init /\ [][Next]_vars

(* The two tools together: generate_image and generateImages on requests
   with a valid count up to ToolsUnits, followed by validate_image *)
ToolsUnits == 2

ToolsRequests ==
    {o \in Requests : o.hasCount /\ o.count >= MinCount /\ o.count <= ToolsUnits}

\* the answers of the remote service: next to those without an image, an
\* image of 16x16, one of 5x5, text, and a payload that decodes to nothing
ToolsResponses ==
    {resp \in Responses : resp.kind # "candidate"}
    \cup {[kind |-> "candidate", message |-> <<>>, parts |-> ps] :
            ps \in {<<TextPart>>, <<TextPart, InlinePart(<<"iVBORxAQ">>)>>,
                    <<InlinePart(<<"iVBORwUF">>)>>, <<InlinePart(<<"aGkhCg==">>)>>,
                    <<InlinePart(<<"====">>)>>}}

InitTools == InitWith(ToolsRequests, MaxExt)

GenerateTools(r) ==
    \/ ClientGenerateImages(r)
    \/ PreCheck(r)
    \/ Assemble(r)
    \/ RespondWith(r, ToolsResponses)
    \/ Mkdir(r)
    \/ Recheck(r)
    \/ Write(r)
    \/ Metadata(r)

NextTools ==
    \/ \E r \in Reqs : GenerateTools(r)
    \/ \E r \in Reqs : ToolGenerateImage(r)
    \/ \E r \in Reqs : Transparency(r)
    \/ ExternalCreate
    \/ ValidateImage

SpecTools == InitTools /\ [][NextTools]_vars

(* Path planning: direct calls with a prompt, over the base paths
   PlanPaths, with no other process *)
PlanPaths ==
    {<<"out", Dot, "png">>,
     <<Dot, Sep, "out", Dot, "png">>,
     <<"art", Sep, "out", Dot, "png">>,
     <<Sep, "tmp", Sep, "out", Dot, "png">>,
     <<Dot, Dot, Sep, "out", Dot, "png">>,
     <<"art", Sep, Dot, Dot, Sep, "out", Dot, "png">>,
     <<"art", Sep, Sep, "out", Dot, "v2", Dot, "png">>,
     <<"out">>,
     <<Dot, "png">>,
     <<Sep, "out", Dot>>}

PlanRequests ==
    {o \in [entry : {"client"}, makeTransparent : {FALSE}, prompt : {<<"a cat">>},
            images : {<<>>}, outputPath : PlanPaths, hasCount : BOOLEAN,
            count : {0, MaxCount + 1} \cup (MinCount..MaxUnits)] :
        o.hasCount <=> o.count # 0}

InitPlan == InitWith(PlanRequests, 0)

NextPlan == \E r \in Reqs : Generate(r)

SpecPlan == InitPlan /\ [][NextPlan]_vars

(* Two concurrent direct calls on the same base path, next to another
   process *)
PairUnits == 2

PairRequests ==
    {o \in Requests : /\ o.entry = "client" /\ o.prompt # <<>> /\ o.images = <<>>
                      /\ o.hasCount /\ o.count >= MinCount /\ o.count <= PairUnits}

InitPair ==
    /\ \E o1 \in PairRequests, o2 \in PairRequests :
         rq = [r \in Reqs |-> IF r = 1 THEN NewRequest(o1) ELSE NewRequest(o2)]
    /\ files = <<>>
    /\ ext = MaxExt
    /\ report = NoReport

\* a rejection, a response without candidates, one with a text and an image
PairResponses ==
    {resp \in Responses :
        \/ resp.kind = "throw" /\ resp.message = QuotaMessage
        \/ resp.kind = "empty"
        \/ resp.kind = "candidate"
             /\ resp.parts = <<TextPart, InlinePart(<<"iVBORxAQ">>)>>}

GeneratePair(r) ==
    \/ ClientGenerateImages(r)
    \/ PreCheck(r)
    \/ Assemble(r)
    \/ RespondWith(r, PairResponses)
    \/ Mkdir(r)
    \/ Recheck(r)
    \/ Write(r)
    \/ Metadata(r)

NextPair ==
    \/ \E r \in Reqs : GeneratePair(r)
    \/ ExternalCreate

SpecPair == InitPair /\ [][NextPair]_vars

(* Classification: a direct call whose remote call is rejected with a
   message of up to MaxWords words of the vocabulary *)
MaxWords == 2

Vocabulary ==
    {"API key", "exists", "quota", "limit", "Permission denied",
     "file not found", "not a ", "valid image", "Invalid base64",
     "Empty base64", "permission", "access", "fetch failed"}

Messages == UNION {[1..n -> Vocabulary] : n \in 0..MaxWords}

ClassifyRequests ==
    {o \in Requests : /\ o.entry = "client" /\ o.prompt # <<>> /\ o.images = <<>>
                      /\ ~o.hasCount}

ClassifyResponses ==
    {[kind |-> "throw", message |-> m, parts |-> <<>>] : m \in Messages}

InitClassify == InitWith(ClassifyRequests, 0)

NextClassify ==
    \E r \in Reqs :
        \/ ClientGenerateImages(r)
        \/ PreCheck(r)
        \/ Assemble(r)
        \/ RespondWith(r, ClassifyResponses)

SpecClassify == InitClassify /\ [][NextClassify]_vars

(* Input resolution: calls with one or two image references of every
   form, the input file in every state, and a remote service that answers
   without candidates or rejects the call *)
ExistsPath    == <<"exists", Dot, "png">>
OtherPath     == <<"other", Dot, "png">>
DataUrlEmpty  == <<"data:", "image/png", ";", "base64,", "====">>
DataUrlText   == <<"data:", "image/png", ";", "base64,", "aGkhCg==">>
DataUrlBad    == <<"data:", "image/png", ";", "notbase64,", "abcdef">>
DataUrlNoMime == <<"data:", ";", "base64,", "iVBORxAQ">>
BareEmpty     == <<"====">>
BareText      == <<"aGkhCg==">>
Prefixed      == <<"x", "base64,", "iVBORxAQ">>

InputRefs ==
    {InPath, ExistsPath, OtherPath, DataUrlPng, DataUrlEmpty, DataUrlText,
     DataUrlBad, DataUrlNoMime, BareBase64, BareEmpty, BareText, <<>>, Prefixed}

InputLists ==
    {<<Image(d)>> : d \in InputRefs}
    \cup {<<Image(InPath), Image(OtherPath)>>, <<Image(OtherPath), Image(InPath)>>,
          <<Image(DataUrlPng), Image(DataUrlBad)>>, <<Image(DataUrlPng), Image(InPath)>>}

InputUnits == 2

InputRequests ==
    [entry : {"tool", "client"}, makeTransparent : {FALSE}, prompt : Prompts,
     images : InputLists, outputPath : OutPaths, hasCount : {TRUE},
     count : MinCount..InputUnits]

InputFiles ==
    InFiles \cup {FileState("file", TruncatedPng), FileState("file", GarbageBytes)}

InputResponses ==
    {resp \in Responses :
        \/ resp.kind = "throw" /\ resp.message = QuotaMessage
        \/ resp.kind = "empty"}

InitInputs == InitWith(InputRequests, 0)

NextInputs ==
    \E r \in Reqs :
        \/ ToolGenerateImage(r)
        \/ ClientGenerateImages(r)
        \/ PreCheck(r)
        \/ AssembleWith(r, InputFiles)
        \/ RespondWith(r, InputResponses)

SpecInputs == InitInputs /\ [][NextInputs]_vars

----------------------------------------------------------------------------
(* Properties *)

\* the requests that have been made
Made == {r \in Reqs : rq[r].pc \notin {"off", "init"}}

\* the planned paths of q whose file was there when generateImages started
HitsAtStart(q) ==
    {j \in 1..Len(q.intendedPaths) : FileKey(q.intendedPaths[j]) \in q.startFiles}

SetMin(S) == CHOOSE x \in S : \A y \in S : x <= y

\* the files of the output directory request r created
FilesBy(r) == {x \in DOMAIN files : files[x].by = r}

\* the units of q that ended with the given log entry
UnitsWith(q, entry) == {j \in 1..Len(q.log) : q.log[j] = entry}

\* C1: when a planned path exists as generateImages starts, the request
\* issues no remote call and writes nothing, and it returns FILE_EXISTS
\* naming a planned path up to the first one that existed (that very one
\* when no other process creates a file during the pre-check).
C1_CollisionFailFast ==
    \A r \in Made :
        LET q == rq[r]
            hits == HitsAtStart(q)
        IN  hits # {} =>
              /\ q.calls = 0 /\ q.wrote = {} /\ FilesBy(r) = {}
              /\ q.pc \in {"precheck", "done"}
              /\ q.pc = "done" =>
                   /\ ~q.result.success
                   /\ q.result.code = "FILE_EXISTS"
                   /\ \E j \in 1..SetMin(hits) :
                        /\ q.result.message = ExistsMessage(q.intendedPaths[j])
                        /\ ~q.foreign => j = SetMin(hits)

\* a request of three units returned FILE_EXISTS because its last planned
\* path existed
C1_Witness ==
    \E r \in Made :
        /\ rq[r].pc = "done"
        /\ HitsAtStart(rq[r]) = {3}
        /\ rq[r].result.code = "FILE_EXISTS"
        /\ rq[r].calls = 0

\* C2: a unit that finds its output path taken at write time, by the
\* re-check or by the exclusive create, ends the request at once with
\* FILE_EXISTS.
C2_WriteCollisionFatal ==
    \A r \in Made :
        LET q == rq[r] IN
        \A j \in 1..Len(q.log) :
            q.log[j] \in {"recheck", "eexist"} =>
              /\ q.pc = "done"
              /\ ~q.result.success
              /\ q.result.code = "FILE_EXISTS"
              /\ Len(q.log) = j

\* C3: no step of generateImages changes or removes a file that exists
\* (only the post-processing of generate_image rewrites a file, one the
\* request itself created), and a write on an existing path leaves the
\* directory as it is and ends in an exception.
C3_ExclusiveWrite ==
    [][ /\ \A x \in DOMAIN files :
             \/ x \in DOMAIN files' /\ files'[x] = files[x]
             \/ \E r \in Reqs :
                  /\ rq[r].pc = "transparent"
                  /\ <<rq'[r].pc, rq'[r].t>> # <<rq[r].pc, rq[r].t>>
                  /\ x = FileKey(rq[r].result.images[rq[r].t].path)
                  /\ files[x].by = r
                  /\ x \in DOMAIN files'
        /\ \A r \in Reqs :
             (rq[r].pc = "write" /\ rq'[r].pc # "write" /\ Exists(rq[r].outputPath)) =>
                /\ files' = files
                /\ rq'[r].log = Append(rq[r].log, "eexist")
                /\ rq'[r].wrote = rq[r].wrote ]_vars

\* a write of one request found its path taken by the file the other
\* request had just created, which is still there as it was written
C3_Witness ==
    \E r \in Made, s \in Made :
        /\ r # s
        /\ UnitsWith(rq[r], "eexist") # {}
        /\ \E x \in rq[s].wrote :
             /\ x \in PlannedKeys(rq[r].options)
             /\ files[x].by = s
             /\ files[x].bytes = Png(16, 16)

\* C4: when the assembly or the remote call of the first unit throws, the
\* request ends at once with the failure handleError makes of the
\* exception, without images, without a later unit and without a file.
C4_FirstUnitFatal ==
    \A r \in Made :
        LET q == rq[r] IN
        (Len(q.log) >= 1 /\ q.log[1] \in {"assemble", "remote"}) =>
           /\ q.pc = "done"
           /\ ~q.result.success /\ ~q.result.hasImages
           /\ q.result = handleError(q.thrown)
           /\ q.result.code \notin {"", "NO_IMAGES_GENERATED"}
           /\ Len(q.log) = 1 /\ q.i = 0
           /\ q.calls = (IF q.log[1] = "remote" THEN 1 ELSE 0)
           /\ q.wrote = {} /\ FilesBy(r) = {}

\* a request of three units ended on the remote rejection of its first
\* unit
C4_Witness ==
    \E r \in Made :
        /\ rq[r].pc = "done"
        /\ rq[r].options.hasCount /\ rq[r].options.count = 3
        /\ rq[r].log = <<"remote">>
        /\ rq[r].result.code = "QUOTA_EXCEEDED"

\* the files request r created that hold an image, and their units
Produced(r) == {x \in FilesBy(r) : SharpDecodes(files[x].bytes)}

ProducedUnits(r) == {files[x].unit + 1 : x \in Produced(r)}

\* generateImages has returned after its loop ran to the end
RanAll(q) == q.pc \in {"transparent", "done"} /\ q.count >= 1 /\ q.i = q.count

InUnit(q) == q.pc \in {"assemble", "calling", "mkdir", "recheck", "write", "metadata"}

\* the images listed are those of the files in X
Lists(images, X) ==
    /\ Len(images) = Cardinality(X)
    /\ \A x \in X : \E n \in 1..Len(images) : FileKey(images[n].path) = x

C6_NoImagesIff ==
    \A r \in Made :
        LET q == rq[r] IN
        /\ RanAll(q) =>
             /\ q.result.code = "NO_IMAGES_GENERATED" <=> Produced(r) = {}
             /\ Produced(r) = {} => ~q.result.success /\ ~q.result.hasImages
             /\ Produced(r) # {} =>
                  /\ q.result.success /\ q.result.hasImages
                  /\ Lists(q.result.images, Produced(r))
                  /\ Len(q.result.images) <= q.count
        /\ (q.pc = "done" /\ q.result.code = "NO_IMAGES_GENERATED") => RanAll(q)

\* of three units one had no candidates, one gave an image and one failed:
\* the result is a success with the one image
C6_Witness ==
    \E r \in Made :
        /\ rq[r].pc = "done" /\ rq[r].i = 3 /\ rq[r].count = 3
        /\ UnitsWith(rq[r], "empty") # {}
        /\ rq[r].result.success /\ Len(rq[r].result.images) = 1

\* the error codes of a result
ErrorCodes ==
    {"INVALID_API_KEY", "FILE_EXISTS", "QUOTA_EXCEEDED", "FILE_ACCESS_ERROR",
     "FILE_NOT_FOUND", "INVALID_IMAGE_FORMAT", "INVALID_BASE64",
     "EMPTY_IMAGE_DATA", "FILE_WRITE_ERROR", "API_ERROR", "INVALID_INPUT",
     "NO_IMAGES_GENERATED", "UNKNOWN_ERROR"}

Structured(result) ==
    IF result.success
    THEN result.hasImages /\ Len(result.images) >= 1
    ELSE ~result.hasImages /\ result.code \in ErrorCodes /\ result.message # <<>>

ReportErrors ==
    {"none", "Invalid input parameters", "File does not exist",
     "Invalid image file", "Image has invalid dimensions",
     "Image is too small (less than 10x10 pixels)"}

\* C7: no exception leaves generateImages, generate_image or
\* validate_image: a request that has ended has returned a result that is
\* a success with images or a failure with a code and a message, and
\* validate_image has returned a report.
C7_NoEscape ==
    /\ \A r \in Made :
         /\ rq[r].pc # "escaped"
         /\ rq[r].pc = "done" => Structured(rq[r].result)
    /\ report.error \in ReportErrors
    /\ report.valid <=> (report # NoReport /\ report.error = "none")

\* a direct call ended in a failure result after the write of its first
\* unit was refused, and validate_image reported on a file it could not
\* read
C7_Witness ==
    /\ \E r \in Made :
         /\ rq[r].options.entry = "client"
         /\ rq[r].pc = "done"
         /\ rq[r].log = <<"write">>
         /\ rq[r].result.code = "FILE_WRITE_ERROR"
    /\ report.exists /\ report.error = "Invalid image file"

\* dir(P)/name(P)-(i+1) followed by the extension of P, as written
Suffixed(P, i) ==
    dirname(P) \o <<Sep>> \o basenameExt(P, extname(P))
               \o <<"-", NumStr(i + 1)>> \o extname(P)

C9_CountRejected ==
    \A r \in Made :
        LET q == rq[r] IN
        (/\ q.options.hasCount
         /\ q.options.count < MinCount \/ q.options.count > MaxCount
         /\ q.startFiles = {} /\ ~q.foreign) =>
           /\ q.calls = 0 /\ q.wrote = {}
           /\ q.pc \in {"precheck", "done"}
           /\ q.pc = "done" => q.result.code = "INVALID_INPUT"

\* C10: a request made into an empty output directory with an empty prompt
\* and no image issues no remote call, writes no file, and returns
\* INVALID_INPUT.
C10_NoContentRejected ==
    \A r \in Made :
        LET q == rq[r] IN
        (/\ q.options.prompt = <<>> /\ Len(q.options.images) = 0
         /\ q.startFiles = {} /\ ~q.foreign) =>
           /\ q.calls = 0 /\ q.wrote = {}
           /\ q.pc = "done" => q.result.code = "INVALID_INPUT"

\* the codes of the classification in their order of precedence, and the
\* pattern each stands for
ClassOrder ==
    <<"INVALID_API_KEY", "FILE_EXISTS", "QUOTA_EXCEEDED", "FILE_ACCESS_ERROR",
      "FILE_NOT_FOUND", "INVALID_IMAGE_FORMAT", "INVALID_BASE64",
      "EMPTY_IMAGE_DATA", "FILE_WRITE_ERROR">>

Applies(k, m) ==
    CASE k = 1 -> Includes(m, <<"API key">>)
      [] k = 2 -> Includes(m, <<"exists">>)
      [] k = 3 -> Includes(m, <<"quota">>) \/ Includes(m, <<"limit">>)
      [] k = 4 -> Includes(m, <<"Permission denied">>)
      [] k = 5 -> Includes(m, <<"file not found">>)
      [] k = 6 -> Includes(m, <<"not a ", "valid image">>)
      [] k = 7 -> Includes(m, <<"Invalid base64">>)
      [] k = 8 -> Includes(m, <<"Empty base64">>)
      [] k = 9 -> Includes(m, <<"permission">>) \/ Includes(m, <<"access">>)

Applicable(m) == {k \in 1..Len(ClassOrder) : Applies(k, m)}

\* C11: the code of a classified error is that of the earliest pattern of
\* the order API key, existing file, quota or limit, permission denied,
\* not found, unrecognized format, invalid base64, empty data, generic
\* write error that its message matches, and API_ERROR when it matches
\* none.
C11_ClassificationOrder ==
    \A r \in Made :
        LET q == rq[r] IN
        (q.pc = "done" /\ q.log = <<"remote">>) =>
           /\ ~q.result.success
           /\ q.result.code =
                IF Applicable(q.thrown) = {} THEN "API_ERROR"
                ELSE ClassOrder[SetMin(Applicable(q.thrown))]

\* a rejection whose message matches the patterns of both the empty-data
\* and the generic write error has been classified
C11_Witness ==
    \E r \in Made :
        /\ rq[r].pc = "done"
        /\ rq[r].thrown = <<"access", "Empty base64">>
        /\ rq[r].result.code = "EMPTY_IMAGE_DATA"

\* the input file is a file that holds no image: nothing, text, a PNG cut
\* off inside its header, or bytes of no format
NoImageFile(f) ==
    f.st = "file" /\ f.bytes \in {<<>>, TextBytes, TruncatedPng, GarbageBytes}

\* C12: a request whose only image is a path to a file holding no bytes,
\* text, a truncated PNG header or garbage issues no remote call with it,
\* and when that happens at the first unit it returns
\* INVALID_IMAGE_FORMAT or EMPTY_IMAGE_DATA.
C12_FormatRejection ==
    \A r \in Made :
        LET q == rq[r] IN
        (q.options.images = <<Image(InPath)>> /\ NoImageFile(q.inFile)) =>
           /\ q.pc # "calling"
           /\ q.pc = "done"
           /\ q.result.code \in {"INVALID_IMAGE_FORMAT", "EMPTY_IMAGE_DATA"}
           /\ q.calls = 0

\* the references of the model that are file paths
PathRefs == {InPath, ExistsPath, OtherPath}

\* C13: a request whose only image is a file path, whatever its text,
\* fails at its first unit without a remote call, with FILE_NOT_FOUND when
\* the file does not exist and with FILE_ACCESS_ERROR when access to it is
\* denied.
C13_InputFailureClass ==
    \A r \in Made :
        LET q == rq[r]
            f == InputFileAt(q.inFile, q.options.images[1].data)
        IN  (/\ Len(q.options.images) = 1
             /\ q.options.images[1].data \in PathRefs
             /\ q.log = <<"assemble">>
             /\ f.st \in {"missing", "noaccess"}) =>
               /\ q.pc = "done" /\ q.calls = 0
               /\ q.result.code = IF f.st = "missing" THEN "FILE_NOT_FOUND"
                                  ELSE "FILE_ACCESS_ERROR"

\* the request has one image, d, and its first assembly has thrown
OnlyImageFailed(q, d) ==
    q.options.images = <<Image(d)>> /\ q.log = <<"assemble">>

\* C14: a request whose only image is a data URL or a bare base64 string
\* with a payload that decodes to no bytes returns EMPTY_IMAGE_DATA at
\* its first unit, without a remote call.
C14_EmptyPayload ==
    \A r \in Made :
        LET q == rq[r] IN
        \A d \in {DataUrlEmpty, BareEmpty} :
            /\ q.options.images = <<Image(d)>> => q.calls = 0
            /\ OnlyImageFailed(q, d) =>
                  q.pc = "done" /\ q.result.code = "EMPTY_IMAGE_DATA"

\* C15: a request whose only image is a bare base64 string of a valid
\* image never fails in its assembly, and its remote call carries the
\* string as inline data.
C15_BareBase64 ==
    \A r \in Made :
        LET q == rq[r] IN
        q.options.images = <<Image(BareBase64)>> =>
           /\ \A j \in 1..Len(q.log) : q.log[j] \notin {"assemble", "threw"}
           /\ q.pc = "calling" =>
                \E n \in 1..Len(q.parts) :
                   q.parts[n].kind = "inlineData" /\ q.parts[n].data = BareBase64

\* C16: a request whose only image starts with data: without having the
\* shape data:<mime>;base64,<payload> fails at its first unit without a
\* remote call, with a code other than API_ERROR.
C16_MalformedDataUrl ==
    \A r \in Made :
        LET q == rq[r] IN
        \A d \in {DataUrlBad, DataUrlNoMime} :
            /\ q.options.images = <<Image(d)>> => q.calls = 0
            /\ OnlyImageFailed(q, d) =>
                  q.pc = "done" /\ ~q.result.success /\ q.result.code # "API_ERROR"

\* image n of the request resolves with the input file as the assembly
\* found it
Resolves(q, n) ==
    loadImageData(q.options.images[n],
                  InputFileAt(q.inFile, q.options.images[n].data)).ok

\* image n of the request resolves in no state of the input file
NeverResolves(options, n) ==
    \A f \in InputFiles :
        ~loadImageData(options.images[n], InputFileAt(f, options.images[n].data)).ok

\* C17: a remote call is in flight only when every image of the request
\* resolved in the assembly of the unit, and carries them all; a request
\* with several images of which one cannot resolve issues no remote call
\* at any unit and fails at its first unit.
C17_AssemblyAllOrNothing ==
    \A r \in Made :
        LET q  == rq[r]
            im == q.options.images
        IN  Len(im) >= 2 =>
              /\ q.pc = "calling" =>
                   /\ \A n \in 1..Len(im) : Resolves(q, n)
                   /\ Len(q.parts) = Len(im) + (IF q.options.prompt = <<>> THEN 0 ELSE 1)
              /\ (\E n \in 1..Len(im) : NeverResolves(q.options, n)) =>
                   /\ q.calls = 0
                   /\ q.pc \in {"precheck", "assemble", "done"}
                   /\ q.pc = "done" => (~q.result.success /\ q.log = <<"assemble">>)

\* a request with a valid image file and a missing one has failed on the
\* missing one, with the valid file in place, without a remote call
C17_Witness ==
    \E r \in Made :
        /\ rq[r].options.images = <<Image(InPath), Image(OtherPath)>>
        /\ rq[r].inFile = FileState("file", Png(16, 16))
        /\ rq[r].pc = "done" /\ rq[r].calls = 0
        /\ rq[r].result.code = "FILE_NOT_FOUND"

\* C18: for a well-typed input, and unless fs.stat rejects, validate_image
\* reports valid exactly when the file exists, decodes and measures at
\* least 10 by 10; a missing file gives exists false with "File does not
\* exist"; a file that does not decode, an empty one included, gives
\* exists true and valid false; a decodable file below 10 in width or
\* height gives exists true, valid false, its dimensions and the too-small
\* error. A valid report carries the dimensions of the file.
C18_ValidateImage ==
    (report # NoReport /\ report.wellTyped /\ ~report.statFails) =>
       LET x      == report.path
           there  == x \in DOMAIN files
           decode == there /\ SharpDecodes(files[x].bytes)
           w      == IF decode THEN files[x].bytes[5] ELSE 0
           h      == IF decode THEN files[x].bytes[6] ELSE 0
       IN  /\ report.valid <=> (decode /\ w >= 10 /\ h >= 10)
           /\ report.exists <=> there
           /\ ~there => report.error = "File does not exist"
           /\ (there /\ ~decode) =>
                 report.error = "Invalid image file" /\ ~report.hasDimensions
           /\ (decode /\ w > 0 /\ h > 0 /\ (w < 10 \/ h < 10)) =>
                 /\ report.error = "Image is too small (less than 10x10 pixels)"
                 /\ report.hasDimensions
           /\ report.hasDimensions => (report.width = w /\ report.height = h)
           /\ report.valid => report.hasDimensions

\* validate_image has reported a file of 5 by 5 pixels that a request
\* created as too small, with its dimensions
C18_Witness ==
    /\ report.exists /\ ~report.valid
    /\ report.hasDimensions /\ report.width = 5 /\ report.height = 5
    /\ report.path \in DOMAIN files
    /\ files[report.path].by # 0

\* validate_image has reported an empty file as existing and invalid
C18_EmptyFileReported ==
    /\ report.exists /\ ~report.valid /\ report.wellTyped /\ ~report.statFails
    /\ report.path \in DOMAIN files
    /\ files[report.path].bytes = <<>>

\* the requests for which generate_image has returned success
Succeeded == {r \in Made : /\ rq[r].options.entry = "tool" /\ rq[r].pc = "done"
                          /\ rq[r].result.success}

\* validate_image was called with the path of the entry e, well typed, and
\* fs.stat did not reject
ReportsOn(e) ==
    /\ report # NoReport /\ report.wellTyped /\ ~report.statFails
    /\ report.path = FileKey(e.path)

\* the report is the one the claim promises for the entry e
Agrees(e) ==
    /\ report.exists
    /\ (e.size.width >= MinSize /\ e.size.height >= MinSize) =>
          /\ report.valid
          /\ report.width = e.size.width /\ report.height = e.size.height

\* C19 as stated: after generate_image returns success, the file of every
\* entry exists and holds the bytes decoded from the inline part it was
\* written from, and validate_image on it reports exists and, from 10 by
\* 10, valid with the dimensions of the entry
C19_RoundTripDecodedBytes ==
    \A r \in Succeeded :
        LET im == rq[r].result.images IN
        \A n \in 1..Len(im) :
            LET x == FileKey(im[n].path) IN
            /\ x \in DOMAIN files
            /\ files[x].bytes = Base64Decode(files[x].data)
            /\ ReportsOn(im[n]) => Agrees(im[n])

\* C19: after generate_image returns success, the file of every entry
\* exists, was created by the request, decodes as an image of the
\* dimensions the entry records, and holds the bytes decoded from the
\* inline part unless makeTransparent was requested, in which case it may
\* instead hold the re-encoding with an alpha channel that makeTransparent
\* wrote over it; validate_image on it, well typed and with fs.stat
\* succeeding, reports exists and, from 10 by 10, valid with the
\* dimensions of the entry
C19_RoundTrip ==
    \A r \in Succeeded :
        LET im == rq[r].result.images IN
        \A n \in 1..Len(im) :
            LET x == FileKey(im[n].path) IN
            /\ x \in DOMAIN files
            /\ files[x].by = r
            /\ SharpDecodes(files[x].bytes)
            /\ SharpMetadata(files[x].bytes) = im[n].size
            /\ files[x].bytes # Base64Decode(files[x].data) =>
                  /\ rq[r].options.makeTransparent
                  /\ files[x].bytes = WithAlpha(Base64Decode(files[x].data))
            /\ ReportsOn(im[n]) => Agrees(im[n])

\* generate_image has returned success with makeTransparent, the file of
\* an entry no longer holds the decoded bytes, and validate_image has
\* reported it valid with the dimensions of the entry
C19_Witness ==
    \E r \in Succeeded :
        LET im == rq[r].result.images IN
        \E n \in 1..Len(im) :
            /\ files[FileKey(im[n].path)].bytes
                  # Base64Decode(files[FileKey(im[n].path)].data)
            /\ ReportsOn(im[n])
            /\ report.valid /\ report.width = im[n].size.width

----------------------------------------------------------------------------
(* The entry point src/index.ts: generate_image served by tools.ts, which
   calls gemini-client.ts. A request of entry "legacy" runs through it. The
   path planner, the schema, the count check and the decoders read the same
   as those of the server directory and are shared with them. *)

\* src/gemini-client.ts, handleError
LegacyHandleError(message) ==
    IF Includes(message, <<"API key">>)
    THEN Failure("INVALID_API_KEY", <<"Invalid or missing ", "API key">>)
    ELSE IF Includes(message, <<"quota">>) \/ Includes(message, <<"limit">>)
    THEN Failure("QUOTA_EXCEEDED", <<"API ", "quota", " exceeded or rate ", "limit", " reached">>)
    ELSE IF Includes(message, <<"permission">>) \/ Includes(message, <<"access">>)
    THEN Failure("FILE_WRITE_ERROR", <<"Unable to write file to specified path">>)
    ELSE Failure("API_ERROR",
                 IF message = <<>> THEN <<"Unknown error occurred">> ELSE message)

\* src/gemini-client.ts, loadImageData: a path is read with fs.readFile and
\* nothing is validated; a data URL that does not match is passed as it is
LegacyLoadImageData(image, file) ==
    LET data == image.data
        mime == IF image.mimeType = "" THEN "image/png" ELSE image.mimeType
    IN  IF ~StartsWith(data, <<"data:">>) /\ ~Includes(data, <<"base64,">>)
        THEN IF file.st = "missing"
             THEN Thrown(OsMessage("ENOENT", OpenCall, data))
             ELSE IF file.st \in {"noaccess", "unreadable"}
             THEN Thrown(OsMessage("EACCES", OpenCall, data))
             ELSE IF file.st = "notdir"
             THEN Thrown(OsMessage("ENOTDIR", OpenCall, data))
             ELSE [ok |-> TRUE, data |-> Base64Encode(file.bytes),
                   mimeType |-> MimeOfExt(extname(data), mime)]
        ELSE IF StartsWith(data, <<"data:">>)
        THEN LET j == DataUrlMatch(data)
             IN  IF j = 0 THEN [ok |-> TRUE, data |-> data, mimeType |-> mime]
                 ELSE [ok |-> TRUE, data |-> SubSeq(data, j + 2, Len(data)),
                       mimeType |-> data[2]]
        ELSE [ok |-> TRUE, data |-> data, mimeType |-> mime]

\* the parts prepareContents pushes for images[1..n], or the first error
RECURSIVE LegacyLoadAll(_, _, _)
LegacyLoadAll(images, n, inFile) ==
    IF n = 0 THEN [ok |-> TRUE, parts |-> <<>>]
    ELSE LET before == LegacyLoadAll(images, n - 1, inFile)
         IN  IF ~before.ok THEN before
             ELSE LET one == LegacyLoadImageData(images[n],
                                 InputFileAt(inFile, images[n].data))
                  IN  IF ~one.ok THEN one
                      ELSE [ok |-> TRUE,
                            parts |-> Append(before.parts,
                                [kind |-> "inlineData", mimeType |-> one.mimeType,
                                 data |-> one.data])]

\* src/gemini-client.ts, prepareContents
LegacyPrepareContents(options, inFile) ==
    LET text   == IF options.prompt # <<>>
                  THEN <<[kind |-> "text", mimeType |-> "", data |-> options.prompt]>>
                  ELSE <<>>
        loaded == LegacyLoadAll(options.images, Len(options.images), inFile)
    IN  IF ~loaded.ok THEN loaded
        ELSE IF Len(text \o loaded.parts) = 0 THEN Thrown(NoContentMessage)
        ELSE [ok |-> TRUE, parts |-> text \o loaded.parts]

\* src/tools.ts, generateImage: the result of generateImages is returned,
\* after the post-processing of a success when makeTransparent is set
LegacyReturned(q, result) ==
    IF q.options.makeTransparent /\ result.success
    THEN [q EXCEPT !.pc = "transparent", !.result = result, !.t = 1]
    ELSE [q EXCEPT !.pc = "done", !.result = result]

\* src/gemini-client.ts, lines 109-122: after the loop
LegacyFinished(q) ==
    IF Len(q.generatedImages) = 0
    THEN LegacyReturned(q, Failure("NO_IMAGES_GENERATED", <<"No images were generated">>))
    ELSE LegacyReturned(q, Success(q.generatedImages))

\* the end of unit i: the next unit or the end
LegacyNextUnit(q, outcome) ==
    LET q1 == [q EXCEPT !.log = Append(@, outcome), !.i = @ + 1,
                        !.parts = <<>>, !.outputPath = <<>>, !.buffer = <<>>,
                        !.inFile = NoFile]
    IN  IF q1.i < q1.count THEN [q1 EXCEPT !.pc = "assemble"] ELSE LegacyFinished(q1)

\* src/gemini-client.ts, lines 101-106 and 124-126: an exception of the
\* first unit reaches the outer catch, one of a later unit is logged
LegacyRaised(q, message, cause) ==
    IF q.i = 0
    THEN LegacyReturned([q EXCEPT !.log = Append(@, LogEntry(q.i, cause)),
                                  !.thrown = message],
                        LegacyHandleError(message))
    ELSE LegacyNextUnit(q, LogEntry(q.i, cause))

\* src/gemini-client.ts, lines 79-84: the loop over the parts runs to the
\* next part with inline data and suspends in ensureDirectoryExists
LegacyProcessParts(q, parts, outcome) ==
    LET idx == {j \in 1..Len(parts) : IsImagePart(parts[j])}
    IN  IF idx = {} THEN LegacyNextUnit(q, outcome)
        ELSE LET j == CHOOSE x \in idx : \A y \in idx : x <= y
             IN  [q EXCEPT !.pc = "mkdir",
                           !.parts = SubSeq(parts, j, Len(parts)),
                           !.outputPath = getOutputPath(q.options.outputPath, q.i, q.count)]

\* src/tools.ts, lines 79-101, and src/gemini-client.ts, lines 50-65:
\* validation, then generateImages up to its first await: the count check;
\* no path is planned and none is tried
LegacyGenerateImage(r) ==
    LET q == rq[r]
        count == CountOrOne(q.options)
    IN
    /\ q.pc = "init" /\ q.options.entry = "legacy"
    /\ rq' = [rq EXCEPT ![r] =
         IF ~SchemaAccepts(q.options)
         THEN [q EXCEPT !.pc = "done",
                        !.result = Failure("INVALID_INPUT", <<"Invalid input parameters">>)]
         ELSE IF q.options.prompt = <<>> /\ Len(q.options.images) = 0
         THEN [q EXCEPT !.pc = "done",
                        !.result = Failure("INVALID_INPUT", NoContentMessage)]
         ELSE IF CountRejected(count)
         THEN LegacyReturned(q, Failure("INVALID_INPUT",
                                        <<"Count must be between 1 and 10">>))
         ELSE [q EXCEPT !.pc = "assemble", !.count = count, !.i = 0,
                        !.startFiles = DOMAIN files]]
    /\ UNCHANGED <<files, ext, report>>

\* src/gemini-client.ts, lines 67-72: prepareContents, then the remote call
\* is issued
LegacyAssemble(r) ==
    LET q == rq[r] IN
    /\ q.pc = "assemble" /\ q.options.entry = "legacy"
    /\ \E inFile \in InFiles :
         LET c  == LegacyPrepareContents(q.options, inFile)
             q1 == [q EXCEPT !.inFile = Observed(q.options, inFile)]
         IN  rq' = [rq EXCEPT ![r] =
                IF c.ok THEN [q1 EXCEPT !.pc = "calling", !.calls = @ + 1,
                                        !.parts = c.parts]
                ELSE LegacyRaised(q1, c.message, "assemble")]
    /\ UNCHANGED <<files, ext, report>>

\* src/gemini-client.ts, lines 69-84: the remote call settles
LegacyRespond(r) ==
    LET q == [rq[r] EXCEPT !.settled = @ + 1] IN
    /\ q.pc = "calling" /\ q.options.entry = "legacy"
    /\ \E resp \in Responses :
         rq' = [rq EXCEPT ![r] =
            IF resp.kind = "throw" THEN LegacyRaised(q, resp.message, "remote")
            ELSE IF resp.kind = "empty" THEN LegacyNextUnit(q, "empty")
            ELSE LegacyProcessParts(q, resp.parts, "empty")]
    /\ UNCHANGED <<files, ext, report>>

\* src/gemini-client.ts, lines 84-86: ensureDirectoryExists settles; the
\* buffer is decoded
LegacyMkdir(r) ==
    LET q == rq[r] IN
    /\ q.pc = "mkdir" /\ q.options.entry = "legacy"
    /\ \/ rq' = [rq EXCEPT ![r] =
             [q EXCEPT !.pc = "write", !.buffer = Base64Decode(q.parts[1].data)]]
       \/ rq' = [rq EXCEPT ![r] =
             LegacyRaised(q, OsMessage("EACCES", MkdirCall, dirname(q.outputPath)), "mkdir")]
    /\ UNCHANGED <<files, ext, report>>

\* src/gemini-client.ts, line 87: fs.writeFile(outputPath, buffer) with the
\* default flag: the file is created or replaced, unless the open fails
LegacyWrite(r) ==
    LET q == rq[r] IN
    /\ q.pc = "write" /\ q.options.entry = "legacy"
    /\ \/ /\ files' = Created(files, q.outputPath,
                              [by |-> r, unit |-> q.i, bytes |-> q.buffer,
                               data |-> q.parts[1].data])
          /\ rq' = [rq EXCEPT ![r] =
               [q EXCEPT !.pc = "metadata",
                         !.wrote = @ \cup {FileKey(q.outputPath)}]]
       \/ /\ rq' = [rq EXCEPT ![r] =
               LegacyRaised(q, OsMessage("EACCES", OpenCall, q.outputPath), "write")]
          /\ UNCHANGED files
    /\ UNCHANGED <<ext, report>>

\* src/gemini-client.ts, lines 89-98: sharp reads the file back; the image
\* is recorded
LegacyMetadata(r) ==
    LET q == rq[r]
        bytes == files[FileKey(q.outputPath)].bytes
    IN
    /\ q.pc = "metadata" /\ q.options.entry = "legacy"
    /\ rq' = [rq EXCEPT ![r] =
         IF SharpDecodes(bytes)
         THEN LegacyProcessParts(
                [q EXCEPT !.generatedImages =
                    Append(@, [path |-> q.outputPath, size |-> SharpMetadata(bytes)])],
                Tail(q.parts), "image")
         ELSE LegacyRaised(q, SharpMessage, "metadata")]
    /\ UNCHANGED <<files, ext, report>>

LegacyUnits == 2

\* the calls of generate_image: a count of 0, of 1 to LegacyUnits, or none
LegacyRequests ==
    {[entry |-> "legacy", makeTransparent |-> t, prompt |-> p, images |-> im,
      outputPath |-> o, hasCount |-> h, count |-> c] :
        t \in BOOLEAN, p \in Prompts, im \in ImageLists, o \in OutPaths,
        h \in BOOLEAN, c \in 0..LegacyUnits}
    \ {o \in [entry : {"legacy"}, makeTransparent : BOOLEAN, prompt : Prompts,
              images : ImageLists, outputPath : OutPaths, hasCount : {FALSE},
              count : 1..LegacyUnits] : TRUE}

InitLegacy == InitWith(LegacyRequests, MaxExt)

GenerateLegacy(r) ==
    \/ LegacyGenerateImage(r)
    \/ LegacyAssemble(r)
    \/ LegacyRespond(r)
    \/ LegacyMkdir(r)
    \/ LegacyWrite(r)
    \/ LegacyMetadata(r)

NextLegacy ==
    \/ \E r \in Reqs : GenerateLegacy(r)
    \/ \E r \in Reqs : Transparency(r)
    \/ ExternalCreate

SpecLegacy == InitLegacy /\ [][NextLegacy]_vars

\* the planned files of request r that were there when generateImages
\* started
ThereAtStart(r) == PlannedKeys(rq[r].options) \cap rq[r].startFiles

\* C20: when generate_image through src/index.ts has returned for a valid
\* request of which an output path already existed, the result is
\* FILE_EXISTS and the files that existed are as they were
C20_LegacyCollision ==
    \A r \in Made :
        (/\ rq[r].options.entry = "legacy" /\ rq[r].pc = "done"
         /\ SchemaAccepts(rq[r].options)
         /\ (rq[r].options.prompt # <<>> \/ Len(rq[r].options.images) > 0)
         /\ ThereAtStart(r) # {}) =>
            /\ rq[r].result.code = "FILE_EXISTS"
            /\ \A x \in ThereAtStart(r) : files[x] = ForeignFile

\* a file that existed when the request started has been replaced by the
\* request, which returned success
C20_Overwritten ==
    \E r \in Made :
        /\ rq[r].options.entry = "legacy" /\ rq[r].pc = "done"
        /\ rq[r].result.success
        /\ \E x \in ThereAtStart(r) : files[x].by = r

----------------------------------------------------------------------------
(* The CLI's ConfigManager (cli/src/lib/config-manager.ts) on the settings
   file of the Gemini CLI. Under SpecConfig the variables hold the state of
   the CLI: files is the file system (the settings file and the backups,
   the field bytes holding the text of a file), rq[1] the operation under
   way, ext the number of operations still to come. *)

\* a JSON value: a string, null, or an object with its entries in order
JString(v)  == [t |-> "string", v |-> v, entries |-> <<>>]
JNull       == [t |-> "null", v |-> "", entries |-> <<>>]
JObject(es) == [t |-> "object", v |-> "", entries |-> es]
Entry(key, value) == [key |-> key, value |-> value]

\* what a property access gives when the property is absent
Undefined == [t |-> "undefined", v |-> "", entries |-> <<>>]

\* the text of a settings file: garbage, or an object whose members are
\* each well formed (ok) or not, with or without comments
Member(key, value, ok) == [key |-> key, value |-> value, ok |-> ok]
Text(top, members, comments) == [top |-> top, members |-> members, comments |-> comments]

\* obj[key]
Get(obj, key) ==
    IF \E n \in 1..Len(obj.entries) : obj.entries[n].key = key
    THEN obj.entries[CHOOSE n \in 1..Len(obj.entries) : obj.entries[n].key = key].value
    ELSE Undefined

\* obj[key] = value: an existing property keeps its place
Set(obj, key, value) ==
    IF \E n \in 1..Len(obj.entries) : obj.entries[n].key = key
    THEN JObject([n \in 1..Len(obj.entries) |->
                    IF obj.entries[n].key = key THEN Entry(key, value)
                    ELSE obj.entries[n]])
    ELSE JObject(Append(obj.entries, Entry(key, value)))

\* delete obj[key]
Delete(obj, key) == JObject(SelectSeq(obj.entries, LAMBDA e : e.key # key))

\* { ...a, ...b }
RECURSIVE Spread(_, _)
Spread(a, es) ==
    IF es = <<>> THEN a ELSE Spread(Set(a, es[1].key, es[1].value), Tail(es))

Truthy(v) == v.t = "object" \/ (v.t = "string" /\ v.v # "")

\* jsonc-parser's parse: fault tolerant; a member that is not well formed
\* is reported and left out, comments are skipped, a later member of the
\* same key replaces the earlier one; text that is no JSON gives undefined
RECURSIVE ParseMembers(_, _)
ParseMembers(obj, ms) ==
    IF ms = <<>> THEN obj
    ELSE ParseMembers(IF ms[1].ok THEN Set(obj, ms[1].key, ms[1].value) ELSE obj,
                      Tail(ms))

parse(text) ==
    IF text.top = "object" THEN ParseMembers(JObject(<<>>), text.members)
    ELSE Undefined

\* JSON.stringify(config, null, 2): the own properties in their order
stringify(config) ==
    Text("object",
         [n \in 1..Len(config.entries) |->
             Member(config.entries[n].key, config.entries[n].value, TRUE)],
         FALSE)

SettingsKey == <<"settings.json">>
BackupKey(n) == <<"backups", "settings-", ToString(n), ".json">>

\* ConfigManager.readConfig: no file, a read that throws and text that
\* parses to nothing all give {}
readConfig(exists, readFails, text) ==
    IF ~exists \/ readFails THEN [ok |-> TRUE, config |-> JObject(<<>>)]
    ELSE LET config == parse(text) IN
         [ok |-> TRUE, config |-> IF Truthy(config) THEN config ELSE JObject(<<>>)]

NanoBanana == "nano-banana"

\* the entry addNanoBanana writes, lines 123-131
NanoBananaEntry(options) ==
    LET base == <<Entry("command", JString("node")),
                  Entry("args", JString(options.serverPath)),
                  Entry("env", JString(options.apiKey))>>
        tmo  == IF options.timeout # "" THEN <<Entry("timeout", JString(options.timeout))>>
                ELSE <<>>
        tru  == IF options.trust # "" THEN <<Entry("trust", JString(options.trust))>>
                ELSE <<>>
    IN  JObject(base \o tmo \o tru)

\* a primitive that is truthy: assigning a property to it throws in
\* strict mode
IsPrimitive(v) == v.t = "string"

\* addNanoBanana, lines 117-131, on the config read
Added(config, options) ==
    LET servers == IF Truthy(Get(config, "mcpServers")) THEN Get(config, "mcpServers")
                   ELSE JObject(<<>>)
    IN  IF IsPrimitive(servers) THEN [ok |-> FALSE, config |-> config]
        ELSE [ok |-> TRUE,
              config |-> Set(config, "mcpServers",
                             Set(servers, NanoBanana, NanoBananaEntry(options)))]

\* config.mcpServers && config.mcpServers['nano-banana']
Configured(config) ==
    LET servers == Get(config, "mcpServers")
    IN  servers.t = "object" /\ Truthy(Get(servers, NanoBanana))

\* removeNanoBanana, lines 153-159
Removed(config) ==
    LET servers == Delete(Get(config, "mcpServers"), NanoBanana)
    IN  IF Len(servers.entries) = 0 THEN Delete(config, "mcpServers")
        ELSE Set(config, "mcpServers", servers)

\* updateNanoBanana, lines 197-201
Updated(config, updates) ==
    LET servers == Get(config, "mcpServers")
    IN  Set(config, "mcpServers",
            Set(servers, NanoBanana, Spread(Get(servers, NanoBanana), updates)))

MaxOps == 2

\* the settings a user may have: a theme (well formed or not), and under
\* mcpServers nothing, null, a string, or an object with another server
\* and with or without a nano-banana entry
OtherServer == Entry("other", JObject(<<Entry("command", JString("npx"))>>))
OldNanoBanana == Entry(NanoBanana, JObject(<<Entry("command", JString("node")),
                                             Entry("trust", JString("false"))>>))
ThemeMembers ==
    {<<>>, <<Member("theme", JString("dark"), TRUE)>>,
     <<Member("theme", JString("dark"), FALSE)>>}
ServerMembers ==
    {<<>>} \cup
    {<<Member("mcpServers", v, TRUE)>> :
        v \in {JNull, JString("x"), JObject(<<>>), JObject(<<OtherServer>>),
               JObject(<<OldNanoBanana>>), JObject(<<OtherServer, OldNanoBanana>>)}}
ConfigTexts ==
    {Text("garbage", <<>>, FALSE)} \cup
    {Text("object", t \o m, c) : t \in ThemeMembers, m \in ServerMembers, c \in BOOLEAN}

UserFile(text) == [by |-> 0, unit |-> 0, bytes |-> text, data |-> <<>>]

\* the calls of the CLI
ConfigCalls ==
    {[op |-> "add", arg |-> [serverPath |-> "dist/index.js", apiKey |-> "key",
                             timeout |-> t, trust |-> u]] :
        t \in {"", "30000"}, u \in {"", "true"}}
    \cup {[op |-> "update", arg |-> <<Entry("timeout", JString("60000"))>>],
          [op |-> "remove", arg |-> <<>>]}

\* an operation of the CLI about to run; before is the file system it
\* started on, readFailed whether its fs.readFile threw
ConfigOp(call, fs) ==
    [pc |-> IF call.op = "add" THEN "backup" ELSE "read",
     op |-> call.op, arg |-> call.arg, config |-> JObject(<<>>),
     before |-> fs, readFailed |-> FALSE, outcome |-> ""]

Ended(q, outcome) == [q EXCEPT !.pc = "done", !.outcome = outcome]

InitConfig ==
    /\ \/ files = <<>>
       \/ \E text \in ConfigTexts : files = (SettingsKey :> UserFile(text))
    /\ \E call \in ConfigCalls :
         rq = [r \in Reqs |-> IF r = 1 THEN ConfigOp(call, files)
                              ELSE NewRequest(NoOptions)]
    /\ ext = MaxOps - 1
    /\ report = NoReport

\* ConfigManager.createBackup, lines 59-70, and what the caller does next
\* without suspending: removeNanoBanana deletes the entry (153-159),
\* updateNanoBanana merges the updates (197-201)
CreateBackup ==
    LET q == rq[1]
        q1 == IF q.op = "add" THEN [q EXCEPT !.pc = "read"]
              ELSE [q EXCEPT !.pc = "write",
                             !.config = IF q.op = "remove" THEN Removed(@)
                                        ELSE Updated(@, q.arg)]
    IN
    /\ q.pc = "backup"
    /\ IF SettingsKey \notin DOMAIN files
       THEN rq' = [rq EXCEPT ![1] = q1] /\ UNCHANGED files
       ELSE \/ /\ files' = Created(files, BackupKey(MaxOps - ext), files[SettingsKey])
               /\ rq' = [rq EXCEPT ![1] = q1]
            \/ /\ rq' = [rq EXCEPT ![1] = Ended(q, "rejected")]
               /\ UNCHANGED files
    /\ UNCHANGED <<ext, report>>

\* ConfigManager.readConfig, lines 32-54, and what the caller does with the
\* config without suspending: addNanoBanana sets the entry (117-131),
\* removeNanoBanana returns false and updateNanoBanana throws when the
\* entry is not there (143-145, 187-189)
ReadConfig ==
    LET q == rq[1]
        exists == SettingsKey \in DOMAIN files
        text == IF exists THEN files[SettingsKey].bytes ELSE Text("garbage", <<>>, FALSE)
    IN
    /\ q.pc = "read"
    /\ \E readFails \in {f \in BOOLEAN : f => exists} :
         LET c  == readConfig(exists, readFails, text).config
             q1 == [q EXCEPT !.readFailed = readFails, !.config = c]
             a  == Added(c, q.arg)
         IN  rq' = [rq EXCEPT ![1] =
                IF q.op = "add"
                THEN IF a.ok THEN [q1 EXCEPT !.pc = "write", !.config = a.config]
                     ELSE Ended(q1, "rejected")
                ELSE IF ~Configured(c)
                THEN Ended(q1, IF q.op = "remove" THEN "false" ELSE "rejected")
                ELSE [q1 EXCEPT !.pc = "backup"]]
    /\ UNCHANGED <<files, ext, report>>

\* ConfigManager.writeConfig, lines 209-217: the file is replaced by the
\* serialised config, unless the write fails
WriteConfig ==
    LET q == rq[1] IN
    /\ q.pc = "write"
    /\ \/ /\ files' = Created(files, SettingsKey,
                              [by |-> 1, unit |-> 0, bytes |-> stringify(q.config),
                               data |-> <<>>])
          /\ rq' = [rq EXCEPT ![1] = Ended(q, "ok")]
       \/ /\ rq' = [rq EXCEPT ![1] = Ended(q, "rejected")]
          /\ UNCHANGED files
    /\ UNCHANGED <<ext, report>>

\* the CLI is run again
NextOperation ==
    /\ rq[1].pc = "done" /\ ext > 0
    /\ \E call \in ConfigCalls : rq' = [rq EXCEPT ![1] = ConfigOp(call, files)]
    /\ ext' = ext - 1
    /\ UNCHANGED <<files, report>>

NextConfig ==
    \/ CreateBackup
    \/ ReadConfig
    \/ WriteConfig
    \/ NextOperation

SpecConfig == InitConfig /\ [][NextConfig]_vars

\* the config a reader finds in the file system fs
ConfigIn(fs) ==
    IF SettingsKey \in DOMAIN fs /\ Truthy(parse(fs[SettingsKey].bytes))
    THEN parse(fs[SettingsKey].bytes) ELSE JObject(<<>>)

\* the entries of the object obj other than the one of the given key
Others(obj, key) ==
    IF obj.t # "object" THEN {}
    ELSE {obj.entries[n] : n \in {m \in 1..Len(obj.entries) : obj.entries[m].key # key}}

\* every top-level setting other than mcpServers and every server other
\* than nano-banana that fs1 holds is in fs2 with the same value
Preserved(fs1, fs2) ==
    /\ \A e \in Others(ConfigIn(fs1), "mcpServers") :
          Get(ConfigIn(fs2), e.key) = e.value
    /\ \A e \in Others(Get(ConfigIn(fs1), "mcpServers"), NanoBanana) :
          Get(Get(ConfigIn(fs2), "mcpServers"), e.key) = e.value

\* C21: when addNanoBanana, updateNanoBanana or removeNanoBanana has
\* ended, every other server entry and every other top-level setting the
\* settings file held before the operation is in it, unchanged
C21_NonDestructive ==
    rq[1].pc = "done" => Preserved(rq[1].before, files)

\* the same, for the operations whose fs.readFile did not throw
C21_PreservedWhenRead ==
    (rq[1].pc = "done" /\ ~rq[1].readFailed) => Preserved(rq[1].before, files)

\* addNanoBanana has replaced a file that held a theme and another server
\* by one that holds the nano-banana entry only
C21_Clobbered ==
    /\ rq[1].pc = "done" /\ rq[1].op = "add" /\ rq[1].outcome = "ok"
    /\ Get(ConfigIn(rq[1].before), "theme") = JString("dark")
    /\ Others(Get(ConfigIn(rq[1].before), "mcpServers"), NanoBanana) # {}
    /\ Len(ConfigIn(files).entries) = 1

----------------------------------------------------------------------------
(* Properties of generateImages, continued *)

\* C22: the assembly or the remote call of a unit has thrown and the
\* request went on (the unit was skipped) exactly when an earlier unit of
\* the request had produced an image; when no unit had, the exception
\* ended the request
C22_SwallowedIffPriorSuccess ==
    \A r \in Made :
        LET q == rq[r] IN
        /\ \A j \in 1..Len(q.log) :
              q.log[j] = "threw" => \E u \in ProducedUnits(r) : u < j
        /\ \A j \in 1..Len(q.log) :
              q.log[j] \in {"assemble", "remote"} =>
                 /\ ~\E u \in ProducedUnits(r) : u < j
                 /\ q.pc \in {"done", "escaped"}

\* the remote call of the second unit threw after a first unit without an
\* image, and the request returned NO_IMAGES_GENERATED
C22_SwallowedWithoutSuccess ==
    \E r \in Made :
        /\ rq[r].pc = "done" /\ rq[r].log = <<"empty", "threw">>
        /\ rq[r].result.code = "NO_IMAGES_GENERATED"
        /\ FilesBy(r) = {}

\* the remote calls of q that are in flight
InFlight(q) == q.calls - q.settled

\* C23: the units of a request run one after the other in index order: a
\* remote call is in flight only while its unit waits for it, never two at
\* a time, and it is issued when every earlier unit has ended; the index
\* moves on by one, when the unit under way has settled its call and
\* ended its writes; the files the earlier units wrote are there when a
\* unit re-checks its path
C23_Sequential ==
    /\ [](\A r \in Made :
            LET q == rq[r] IN
            /\ InFlight(q) \in {0, 1}
            /\ InFlight(q) = 1 <=> q.pc = "calling"
            /\ InUnit(q) => (Len(q.log) = q.i /\ q.i < q.count)
            /\ q.pc = "recheck" => q.wrote \subseteq DOMAIN files)
    /\ [][\A r \in Reqs :
            /\ rq'[r].i \in {rq[r].i, rq[r].i + 1}
            /\ rq'[r].i # rq[r].i =>
                  /\ rq[r].pc \in {"precheck", "assemble", "calling", "mkdir",
                                   "write", "metadata"}
                  /\ InFlight(rq'[r]) = 0
                  /\ rq'[r].pc # "write"
            /\ rq'[r].calls # rq[r].calls =>
                  /\ rq[r].pc = "assemble" /\ rq'[r].pc = "calling"
                  /\ InFlight(rq[r]) = 0
                  /\ rq'[r].i = rq[r].i]_vars

\* the third unit of a request waits for its remote call after the two
\* calls before it have settled and an earlier unit has written its file
C23_Witness ==
    \E r \in Made :
        /\ rq[r].pc = "calling" /\ rq[r].i = 2
        /\ rq[r].calls = 3 /\ rq[r].settled = 2
        /\ FilesBy(r) # {}

\* C24: a unit issues at most one remote call: a call is issued for the
\* unit under way only when none was issued for it, whether the calls
\* before it failed or not, and a request of count N issues at most N
C24_NoRetries ==
    /\ [](\A r \in Made :
            LET q == rq[r] IN
            /\ q.calls <= Len(q.log) + (IF InUnit(q) THEN 1 ELSE 0)
            /\ q.calls <= IF q.count = 0 THEN 0 ELSE q.count)
    /\ [][\A r \in Reqs :
            rq'[r].calls # rq[r].calls =>
               /\ rq'[r].calls = rq[r].calls + 1
               /\ rq[r].calls <= rq[r].i
               /\ Len(rq[r].log) = rq[r].i]_vars

\* a request of three units has returned after three remote calls, the
\* second of which failed
C24_Witness ==
    \E r \in Made :
        /\ rq[r].pc = "done" /\ rq[r].count = 3
        /\ rq[r].calls = 3 /\ rq[r].log[2] = "threw"

----------------------------------------------------------------------------
(* Content assembly on its own: direct calls with every list of image
   references of the model, the empty list included *)

ContentRequests ==
    [entry : {"client"}, makeTransparent : {FALSE}, prompt : Prompts,
     images : InputLists \cup {<<>>}, outputPath : OutPaths, hasCount : {TRUE},
     count : MinCount..InputUnits]

InitContents == InitWith(ContentRequests, 0)

NextContents ==
    \E r \in Reqs :
        \/ ClientGenerateImages(r)
        \/ PreCheck(r)
        \/ AssembleWith(r, InputFiles)
        \/ RespondWith(r, InputResponses)

SpecContents == InitContents /\ [][NextContents]_vars

\* what image n of the request resolves to, the input file being as the
\* assembly found it
Resolved(q, n) ==
    loadImageData(q.options.images[n], InputFileAt(q.inFile, q.options.images[n].data))

\* C25: the contents sent with a remote call are one text part carrying
\* the prompt exactly when the prompt is not empty, followed by one
\* inline-data part per image reference, in the order of the references,
\* each with the mime type and payload its reference resolved to; an
\* assembly fails with 'Either prompt or images must be provided' exactly
\* when the prompt is empty and there is no image reference
C25_ContentAssembly ==
    \A r \in Made :
        LET q == rq[r]
            im == q.options.images
            t == IF q.options.prompt # <<>> THEN 1 ELSE 0
        IN  /\ q.pc = "calling" =>
                 /\ Len(q.parts) = t + Len(im)
                 /\ t = 1 => (q.parts[1].kind = "text" /\ q.parts[1].data = q.options.prompt)
                 /\ \A n \in 1..Len(im) :
                       /\ q.parts[t + n].kind = "inlineData"
                       /\ q.parts[t + n].data = Resolved(q, n).data
                       /\ q.parts[t + n].mimeType = Resolved(q, n).mimeType
            /\ (t = 0 /\ im = <<>>) =>
                 /\ q.calls = 0
                 /\ q.log # <<>> => (q.log = <<"assemble">> /\ q.thrown = NoContentMessage)
            /\ q.thrown = NoContentMessage => (t = 0 /\ im = <<>>)

\* a call is in flight with a prompt, a data URL and an input file that
\* holds text: three parts with two different payloads
C25_Witness ==
    \E r \in Made :
        /\ rq[r].pc = "calling"
        /\ rq[r].options.prompt # <<>>
        /\ rq[r].options.images = <<Image(DataUrlPng), Image(InPath)>>
        /\ Len(rq[r].parts) = 3
        /\ rq[r].parts[2].data # rq[r].parts[3].data

\* a call without prompt and images has failed at its first assembly
C25_NoContent ==
    \E r \in Made :
        /\ rq[r].options.prompt = <<>> /\ rq[r].options.images = <<>>
        /\ rq[r].pc = "done" /\ rq[r].thrown = NoContentMessage

----------------------------------------------------------------------------
(* The image validator on its own. Under SpecBuffer the variable report
   holds a buffer and, once validateImageBuffer was applied, its answer *)

MaxLen == 12

\* the first n bytes of s
Take(s, n) == SubSeq(s, 1, IF n < Len(s) THEN n ELSE Len(s))

\* signatures, and sequences one byte off a signature
Heads ==
    {<<137, 80, 78, 71>>, <<255, 216, 255, 224>>, <<255, 216, 255, 0>>,
     <<71, 73, 70, 56>>, <<82, 73, 70, 70>>, <<66, 77, 0, 0>>, <<66, 77, 54, 9>>,
     <<137, 80, 78, 70>>, <<80, 137, 78, 71>>, <<255, 216, 254, 224>>,
     <<71, 73, 70, 57>>, <<82, 73, 70, 71>>, <<66, 78, 0, 0>>, <<0, 0, 0, 0>>}

\* what follows: the WEBP marker in its place, one byte off, out of place,
\* or none
Tails ==
    {<<0, 0, 0, 0, 87, 69, 66, 80, 86>>, <<0, 0, 0, 0, 87, 69, 66, 81, 86>>,
     <<87, 69, 66, 80, 0, 0, 0, 0, 86>>, <<0, 0, 0, 0, 0, 0, 0, 0, 0>>}

Buffers == {Take(h \o t, n) : h \in Heads, t \in Tails, n \in 0..MaxLen}

InitBuffer ==
    /\ rq = [r \in Reqs |-> NewRequest(NoOptions)]
    /\ files = <<>>
    /\ ext = 0
    /\ \E b \in Buffers : report = [buffer |-> b, checked |-> FALSE, accepted |-> FALSE]

ValidateBuffer ==
    /\ ~report.checked
    /\ report' = [report EXCEPT !.checked = TRUE,
                                !.accepted = validateImageBuffer(report.buffer)]
    /\ UNCHANGED <<rq, files, ext>>

NextBuffer == ValidateBuffer

SpecBuffer == InitBuffer /\ [][NextBuffer]_vars

\* C26: the validator accepts a buffer exactly when it holds at least 4
\* bytes and starts with the bytes of PNG, of JPEG (FF D8 FF), of GIF8 or
\* of BM, or starts with RIFF, holds at least 12 bytes and has WEBP at the
\* bytes 8 to 11 counted from 0
C26_MagicBytes ==
    report.checked =>
       LET b == report.buffer IN
       report.accepted <=>
          /\ Len(b) >= 4
          /\ \/ StartsWith(b, <<137, 80, 78, 71>>)
             \/ StartsWith(b, <<255, 216, 255>>)
             \/ StartsWith(b, <<71, 73, 70, 56>>)
             \/ StartsWith(b, <<66, 77>>)
             \/ /\ StartsWith(b, <<82, 73, 70, 70>>)
                /\ Len(b) >= 12
                /\ b[9] = 87 /\ b[10] = 69 /\ b[11] = 66 /\ b[12] = 80

\* a RIFF buffer of 12 bytes with the WEBP marker was accepted
C26_Witness ==
    /\ report.checked /\ report.accepted
    /\ StartsWith(report.buffer, <<82, 73, 70, 70>>) /\ Len(report.buffer) = 12

\* a buffer of the three bytes FF D8 FF was rejected
C26_ShortRejected ==
    report.checked /\ ~report.accepted /\ report.buffer = <<255, 216, 255>>

\* a RIFF buffer of 11 bytes was rejected
C26_RiffRejected ==
    /\ report.checked /\ ~report.accepted
    /\ StartsWith(report.buffer, <<82, 73, 70, 70>>) /\ Len(report.buffer) = 11

\* the unit whose planned path is the path of the n-th image of the result
UnitOf(q, n) ==
    CHOOSE j \in 1..Len(q.intendedPaths) : q.intendedPaths[j] = q.result.images[n].path

\* C27: a success result lists at least one image and at most count; each
\* path is the planned path of a unit, the units of the entries increase
\* along the list, so that the paths are those of distinct units and name
\* distinct files; a failure result has a code of the taxonomy and no
\* images list
C27_ResultShape ==
    \A r \in Made :
        LET q  == rq[r]
            im == q.result.images
        IN  q.pc \in {"transparent", "done"} =>
              IF q.result.success
              THEN /\ q.result.hasImages
                   /\ 1 <= Len(im) /\ Len(im) <= q.count
                   /\ \A n \in 1..Len(im) :
                         \E j \in 1..Len(q.intendedPaths) : q.intendedPaths[j] = im[n].path
                   /\ \A n, m \in 1..Len(im) :
                         n < m => /\ UnitOf(q, n) < UnitOf(q, m)
                                  /\ FileKey(im[n].path) # FileKey(im[m].path)
              ELSE /\ ~q.result.hasImages /\ im = <<>>
                   /\ q.result.code \in ErrorCodes

\* a request of three units has returned the images of its first and of
\* its third unit
C27_Witness ==
    \E r \in Made :
        /\ rq[r].pc = "done" /\ rq[r].result.success /\ rq[r].count = 3
        /\ Len(rq[r].result.images) = 2
        /\ UnitOf(rq[r], 1) = 1 /\ UnitOf(rq[r], 2) = 3

\* C28: a request that found none of its planned paths taken when it
\* started, and during which no other process created a file, does not
\* return FILE_EXISTS, whatever the remote call answers
C28_NoSelfCollision ==
    \A r \in Made :
        LET q == rq[r] IN
        (/\ q.pc \in {"transparent", "done"}
         /\ HitsAtStart(q) = {} /\ ~q.foreign
         /\ \A x \in DOMAIN files : files[x].by = r) =>
            q.result.code # "FILE_EXISTS"

\* a request alone on an empty directory has written the first inline part
\* of its first unit and returned FILE_EXISTS at the second
C28_SelfCollision ==
    \E r \in Made :
        /\ rq[r].pc = "done" /\ rq[r].result.code = "FILE_EXISTS"
        /\ rq[r].startFiles = {} /\ ~rq[r].foreign
        /\ rq[r].log = <<"recheck">>
        /\ Len(rq[r].parts) = 1 /\ rq[r].wrote = {FileKey(rq[r].outputPath)}
        /\ DOMAIN files = rq[r].wrote

\* C29: when generateImages has returned a failure, no file the request
\* created is in the output directory
C29_NoOrphanOutput ==
    \A r \in Made :
        (rq[r].pc = "done" /\ ~rq[r].result.success) => FilesBy(r) = {}

\* the first unit wrote bytes that are no image, the read of the metadata
\* threw, and the request has failed with the file left in place
C29_OrphanAfterMetadata ==
    \E r \in Made :
        /\ rq[r].pc = "done" /\ ~rq[r].result.success
        /\ rq[r].log = <<"metadata">>
        /\ \E x \in FilesBy(r) : ~SharpDecodes(files[x].bytes)

\* a later unit met a file of another process at its re-check and the
\* request has failed with FILE_EXISTS, the image of an earlier unit left
\* in place
C29_OrphanAfterCollision ==
    \E r \in Made :
        /\ rq[r].pc = "done" /\ rq[r].result.code = "FILE_EXISTS"
        /\ rq[r].i >= 1 /\ rq[r].foreign
        /\ Produced(r) # {}

\* request q found a path of its own taken at the re-check or at the
\* exclusive write
LostRace(q) == \E j \in 1..Len(q.log) : q.log[j] \in {"recheck", "eexist"}

\* the paths of the images a success lists
SuccessKeys(q) ==
    IF q.pc = "done" /\ q.result.success
    THEN {FileKey(q.result.images[n].path) : n \in 1..Len(q.result.images)}
    ELSE {}

\* C30: for two requests with the same output path and count and no file
\* of another process: no path is in the success results of both; every
\* file was created by one of them and holds the bytes of the unit that
\* created it; and a request that found its path taken at the re-check or
\* at the write has returned FILE_EXISTS
C30_ConcurrentPair ==
    (/\ Made = Reqs
     /\ rq[1].options.outputPath = rq[2].options.outputPath
     /\ rq[1].options.count = rq[2].options.count
     /\ \A x \in DOMAIN files : files[x].by # 0) =>
        /\ SuccessKeys(rq[1]) \cap SuccessKeys(rq[2]) = {}
        /\ \A x \in DOMAIN files :
              /\ files[x].bytes = Base64Decode(files[x].data)
              /\ x \in rq[files[x].by].wrote
              /\ \A r \in Reqs \ {files[x].by} : x \notin rq[r].wrote
        /\ \A r \in Reqs :
              (rq[r].pc = "done" /\ LostRace(rq[r])) => rq[r].result.code = "FILE_EXISTS"

\* of two requests for two images on the same path, one lost the second
\* path to the other at the write and has returned NO_IMAGES_GENERATED
C30_LoserNotReported ==
    /\ Made = Reqs
    /\ rq[1].options = rq[2].options
    /\ \A x \in DOMAIN files : files[x].by # 0
    /\ \E r \in Reqs :
         /\ rq[r].pc = "done" /\ rq[r].log = <<"empty", "eexist">>
         /\ rq[r].result.code = "NO_IMAGES_GENERATED"

\* the same statement without its last part holds: no shared path, no
\* shared file
C30_NoSharedOutput ==
    (/\ Made = Reqs
     /\ rq[1].options.outputPath = rq[2].options.outputPath
     /\ rq[1].options.count = rq[2].options.count
     /\ \A x \in DOMAIN files : files[x].by # 0) =>
        /\ SuccessKeys(rq[1]) \cap SuccessKeys(rq[2]) = {}
        /\ \A x \in DOMAIN files :
              /\ files[x].bytes = Base64Decode(files[x].data)
              /\ x \in rq[files[x].by].wrote
              /\ \A r \in Reqs \ {files[x].by} : x \notin rq[r].wrote

====
